---- MODULE Spec2Model ----
(***************************************************************************)
(* Model of the Jex client-side toolkit: the DOM wrapper's listener        *)
(* bookkeeping (Jex.on / off / onClick / delegate / remove), the global    *)
(* listener helpers (onDocument / onWindow), the class-token language of   *)
(* Jex.cls, the toast notifier (JexToast) and the logger buffer            *)
(* (JexLogger).  Each subsystem has its own next-state relation and        *)
(* specification; the variables of the other subsystems stay unchanged.    *)
(***************************************************************************)
EXTENDS Integers, Sequences, FiniteSets, TLC

\* ------------------------------------------------------------------------
\* Bounds of the model
\* ------------------------------------------------------------------------
\* number of registrations a wrapper keeps in #eventHandlers at a time
MaxTracked == 2
\* number of closures created by onClick()/delegate()
MaxClosures == 1
\* number of registrations made through other, short-lived wrappers: jex.$(id).on(...)
MaxForeign == 1
\* number of onDocument()/onWindow() calls
MaxCalls == 2
\* number of class tokens in one cls() call
MaxTokens == 2
\* number of show() calls on the toast notifier
MaxShows == 3
\* number of exit-animation callbacks pending for one toast
MaxExits == 2
\* the clock advances in steps of TickMs up to MaxTime
TickMs == 1000
MaxTime == 1000
\* largest maxLogs option of the logger
MaxLogsOption == 2
\* number of console calls made by the page, and seconds on the logger's clock
MaxLogCalls == 3
MaxLogTime == 1
\* number of items in a JexCollection
MaxItems == 2
\* number of init() calls on the application
MaxInits == 2
\* number of JexLogger instances constructed, and of console calls made around them
MaxLoggers == 2
MaxConCalls == 2
\* number of toggleConsole() calls
MaxToggles == 12
\* the viewport is at most MaxViewport px wide and high; lengths are multiples of PixelStep
MaxViewport == 60
PixelStep == 15
\* at most MaxRegs inspector calls that may register listeners
MaxRegs == 5

\* ------------------------------------------------------------------------
\* Values shared by the DOM models
\* ------------------------------------------------------------------------
Null == "null"
Events == {"click", "keydown"}
UserFns == {"h1", "h2"}
\* the functions onClick()/delegate() wrap around the caller's handler
ClosureNames == <<"c1", "c2", "c3", "c4">>
\* the `options` argument of addEventListener: absent, or {capture: true}
OptionValues == {"undefined", "capture"}

VARIABLES
    listeners,     \* the element's event listener list: {<<type, callback, capture>>}
    inDoc,         \* the element has a parent node
    eventHandlers, \* Jex.#eventHandlers of the wrapper: event -> Seq({fn, options})
    registered,    \* history: registrations made through the wrapper and not detached by its off()
    nClosures,     \* closures created so far
    nForeign,      \* registrations made through short-lived wrappers so far
    jexOp          \* history: the last wrapper operation and how many listeners it detached

jexVars == <<listeners, inDoc, eventHandlers, registered, nClosures, nForeign, jexOp>>

VARIABLES
    globalListeners, \* listener lists of document and window: target -> {<<type, callback, capture>>}
    cleanups,        \* the functions returned so far: target, captured `listeners` array, called yet
    globOp           \* history: the last global-listener call

globVars == <<globalListeners, cleanups, globOp>>

VARIABLES
    classList,  \* the element's classList, as the set of its class names
    clsOp       \* history: the last cls() call, its arguments and what it returned

clsVars == <<classList, clsOp>>

VARIABLES
    toastOptions,   \* JexToast.options: maxVisible, queueMessages, detectDuplicates, duration
    mounted,        \* JexToast.#mounted
    container,      \* toast elements that are children of #dom.container
    activeToasts,   \* keys of the #activeToasts Map, in insertion order
    toastData,      \* values of the #activeToasts Map
    visibleToasts,  \* JexToast.#visibleToasts
    isVisible,      \* JexToast.isVisible
    queue,          \* JexToast.#queue
    lastToast,      \* JexToast.#lastToast
    autoPending,    \* toasts with a pending setTimeout that will call #removeToast
    exitPending,    \* number of pending exit-animation callbacks per toast
    now,            \* Date.now()
    nShows,         \* show() calls so far; the call's number identifies its toast
    lastShown,      \* history: the toast displayed most recently, and clearAll() since
    toastOp         \* history: the last toast operation

toastVars == <<toastOptions, mounted, container, activeToasts, toastData, visibleToasts, isVisible,
               queue, lastToast, autoPending, exitPending, now, nShows, lastShown, toastOp>>

VARIABLES
    loggerSource,  \* which of the two JexLogger sources runs: "JexLogger.js" or "part_002"
    loggerConfig,  \* #config.defaults: maxLogs, groupSimilar, showIndex
    messages,      \* #state.messages
    lastMessage,   \* #state.lastMessage
    messageIndex,  \* #messageIndex
    messageCount,  \* #state.messageCount
    intercepted,   \* the console methods are the logger's interceptors
    logClock,      \* wall clock, in seconds
    nLogCalls,     \* console calls made by the page so far
    logOp          \* history: the last logger operation

loggerVars == <<loggerSource, loggerConfig, messages, lastMessage, messageIndex, messageCount,
                intercepted, logClock, nLogCalls, logOp>>

VARIABLES
    boxInDoc,   \* the element with id "b" is a child of the document element
    itemInBox,  \* the element with id "i" is a child of the element with id "b"
    lookupOp    \* history: the last lookup, its wrapper, its argument and its outcome

lookupVars == <<boxInDoc, itemInBox, lookupOp>>

VARIABLES
    collection,  \* the items of a JexCollection, in order
    invoked,     \* history: the wrapper calls made by the last batch call, in order
    collOp       \* history: the last batch call and what it returned

collVars == <<collection, invoked, collOp>>

VARIABLES
    appSource,     \* which JexApp source runs: "JexApp.js", "JexDebug.js" or "part_001"
    appConfig,     \* config: header auto-hide enabled, keyboard shortcuts enabled
    initialized,   \* JexApp.initialized
    appPc,         \* the statement of init() that runs next; "idle" when no init() runs
    appSteps,      \* history: the steps of the current or last init() call, in order
    appError,      \* the error thrown in the current or last init() call
    initResult,    \* how the last init() call settled, and with which error
    appStart,      \* history: `initialized` and the components when init() was called
    appLogger,     \* #logger: "loaded" or null
    appToast,      \* #toast / toast: "loaded" or null
    appLoad,       \* history: how the imports of the current or last init() call ended
    packageReady,  \* JexPackage.#initialized
    eventCleanup,  \* length of #eventCleanup
    nInits,        \* init() calls so far
    appOp          \* history: the last step of the application

appVars == <<appSource, appConfig, initialized, appPc, appSteps, appError, initResult, appStart,
             appLogger, appToast, appLoad, packageReady, eventCleanup, nInits, appOp>>

VARIABLES
    consoleFn,   \* console[method]: "native" or the number of the logger whose interceptor it is
    loggers,     \* per logger: constructed?, destroyed?, source, #state.originals, appended messages
    nLoggers,    \* loggers constructed so far
    nConCalls,   \* console calls made by the page so far
    conOp        \* history: the last operation on the console

consoleVars == <<consoleFn, loggers, nLoggers, nConCalls, conOp>>

VARIABLES
    toggleSource,    \* which JexLogger source the page runs: "JexLogger.js" or "part_002"
    consoleVisible,  \* #state.isConsoleVisible (JexLogger.js), #state.isVisible (part_002)
    isAnimating,     \* #state.isAnimating
    fallbackTimers,  \* part_002: pending setTimeout callbacks that reset isAnimating
    isEnabled,       \* JexInspector.isEnabled
    mouseListeners,  \* the inspector's mouse and scroll listeners are attached
    nToggles,        \* toggleConsole() calls and F2 keydowns so far
    keyHandlers,     \* who has a keydown listener that calls toggleConsole() on F2
    keyOp,           \* history: the last F2 keydown, the handlers it ran and the state before
    toggleOp         \* history: the last toggleConsole() call and the event it dispatched

toggleVars == <<toggleSource, consoleVisible, isAnimating, fallbackTimers, isEnabled,
                mouseListeners, nToggles, keyHandlers, keyOp, toggleOp>>

VARIABLES
    viewport,  \* window.innerWidth and window.innerHeight
    tooltip    \* the last #positionTooltip call: mouse position, tooltip size, left and top set

tipVars == <<viewport, tooltip>>

VARIABLES
    inspSource,  \* which inspector the page runs: "part_000" (JexInspector) or "JexDebug.js"
    inspector,   \* its isEnabled, the listeners it has registered, its stored cleanup functions
    nRegs,       \* calls so far that may register listeners; a call's number names its listeners
    inspOp       \* history: the last inspector call and the inspector before it

inspVars == <<inspSource, inspector, nRegs, inspOp>>

vars == <<jexVars, globVars, clsVars, toastVars, loggerVars, lookupVars, collVars, appVars,
    consoleVars, toggleVars, tipVars, inspVars>>

otherThanJex == <<globVars, clsVars, toastVars, loggerVars, lookupVars, collVars, appVars,
    consoleVars, toggleVars, tipVars, inspVars>>
otherThanGlobal == <<jexVars, clsVars, toastVars, loggerVars, lookupVars, collVars, appVars,
    consoleVars, toggleVars, tipVars, inspVars>>
otherThanCls == <<jexVars, globVars, toastVars, loggerVars, lookupVars, collVars, appVars,
    consoleVars, toggleVars, tipVars, inspVars>>

\* ------------------------------------------------------------------------
\* DOM listener list (EventTarget): a listener is identified by its type,
\* callback and capture flag; adding an existing one is ignored.
\* ------------------------------------------------------------------------
Capture(options) == options = "capture"

ListenerKey(ev, fn, options) == <<ev, fn, Capture(options)>>

addEventListener(ls, ev, fn, options) == ls \cup {ListenerKey(ev, fn, options)}

removeEventListener(ls, ev, fn, options) == ls \ {ListenerKey(ev, fn, options)}

\* handlers.forEach(h => ref.removeEventListener(event, h.fn, h.options))
RemoveEachNoOptions(ls, ev, entries) ==
    ls \ {ListenerKey(ev, entries[i].fn, "undefined") : i \in DOMAIN entries}

RemoveEach(ls, ev, entries) ==
    ls \ {ListenerKey(ev, entries[i].fn, entries[i].options) : i \in DOMAIN entries}

\* handlers.findIndex(h => h.fn === handler), 0 for -1
FindIndex(entries, handler) ==
    IF \E i \in DOMAIN entries : entries[i].fn = handler
    THEN CHOOSE i \in DOMAIN entries :
            /\ entries[i].fn = handler
            /\ \A j \in DOMAIN entries : entries[j].fn = handler => i <= j
    ELSE 0

\* handlers.splice(index, 1)
Splice(entries, index) ==
    [i \in 1..(Len(entries) - 1) |-> IF i < index THEN entries[i] ELSE entries[i + 1]]

EntryKeys(ev, entries) ==
    {ListenerKey(ev, entries[i].fn, entries[i].options) : i \in DOMAIN entries}

\* ------------------------------------------------------------------------
\* Jex.off(event, handler): the wrapper's map and the element's listeners
\* after the call
\* ------------------------------------------------------------------------
OffDropsEvent(hs, ls, ev, handler) ==
    [handlers |-> [hs EXCEPT ![ev] = <<>>],
     listeners |-> IF handler = Null THEN RemoveEach(ls, ev, hs[ev])
                   ELSE removeEventListener(ls, ev, handler, "undefined")]

OffResult(hs, ls, ev, handler) ==
    IF handler # Null
    THEN LET index == FindIndex(hs[ev], handler) IN
         IF index # 0
         THEN [handlers |-> [hs EXCEPT ![ev] = Splice(hs[ev], index)],
               listeners |-> removeEventListener(ls, ev, hs[ev][index].fn,
                                                 hs[ev][index].options)]
         ELSE [handlers |-> hs, listeners |-> ls]
    ELSE [handlers |-> [hs EXCEPT ![ev] = <<>>],
          listeners |-> RemoveEach(ls, ev, hs[ev])]

\* this.#eventHandlers.get(event).push({fn, options}); ref.addEventListener(...)
OnResult(hs, ls, ev, handler, options) ==
    [handlers |-> [hs EXCEPT ![ev] = Append(hs[ev], [fn |-> handler, options |-> options])],
     listeners |-> addEventListener(ls, ev, handler, options)]

\* the cleanup loop of Jex.remove(): every tracked listener of every event
RECURSIVE RemoveTracked(_, _, _)
RemoveTracked(hs, ls, evs) ==
    IF evs = {} THEN ls
    ELSE LET ev == CHOOSE e \in evs : TRUE IN
         RemoveTracked(hs, RemoveEach(ls, ev, hs[ev]), evs \ {ev})

\* a new Jex(...) starts with an empty #eventHandlers map
EmptyHandlers == [ev \in Events |-> <<>>]

AllKeys(hs) == UNION {EntryKeys(ev, hs[ev]) : ev \in Events}

RECURSIVE SumLen(_, _)
SumLen(hs, evs) ==
    IF evs = {} THEN 0
    ELSE LET ev == CHOOSE e \in evs : TRUE IN Len(hs[ev]) + SumLen(hs, evs \ {ev})

Tracked(hs) == SumLen(hs, Events)

\* history bookkeeping: the registrations whose listener the call did not detach
StillRegistered(regs, ls, lsAfter) ==
    {r \in regs : ListenerKey(r[1], r[2], r[3]) \notin (ls \ lsAfter)}

JexInit ==
    /\ listeners = {}
    /\ inDoc = TRUE
    /\ eventHandlers = EmptyHandlers
    /\ registered = {}
    /\ nClosures = 0
    /\ nForeign = 0
    /\ jexOp = [op |-> "init", n |-> 0]

\* Jex.on(event, handler, options); `minus` is an event name written "-name"
On(ev, handler, options, minus) ==
    /\ IF handler = Null
       THEN UNCHANGED <<listeners, eventHandlers, registered>>
       ELSE IF minus
       THEN LET r == OffResult(eventHandlers, listeners, ev, handler) IN
            /\ eventHandlers' = r.handlers
            /\ listeners' = r.listeners
            /\ registered' = StillRegistered(registered, listeners, r.listeners)
       ELSE /\ Tracked(eventHandlers) < MaxTracked
            /\ LET r == OnResult(eventHandlers, listeners, ev, handler, options) IN
               /\ eventHandlers' = r.handlers
               /\ listeners' = r.listeners
               /\ registered' = registered \cup {<<ev, handler, options>>}
    /\ jexOp' = [op |-> IF handler = Null THEN "onNothing"
                        ELSE IF minus THEN "onMinus" ELSE "on",
                 n |-> Cardinality(listeners \ listeners')]
    /\ UNCHANGED <<inDoc, nClosures, nForeign, otherThanJex>>

\* Jex.off(event, handler); handler = Null is off(event)
Off(ev, handler) ==
    /\ LET r == OffResult(eventHandlers, listeners, ev, handler) IN
       /\ eventHandlers' = r.handlers
       /\ listeners' = r.listeners
       /\ registered' = StillRegistered(registered, listeners, r.listeners)
    /\ jexOp' = [op |-> IF handler = Null THEN "offEvent" ELSE "offHandler",
                 n |-> Cardinality(listeners \ listeners')]
    /\ UNCHANGED <<inDoc, nClosures, nForeign, otherThanJex>>

\* Jex.onClick(handler, options) and Jex.delegate(event, selector, handler,
\* options): both register a fresh closure through on()
OnClosure(ev, options, name) ==
    /\ nClosures < MaxClosures
    /\ Tracked(eventHandlers) < MaxTracked
    /\ LET fn == ClosureNames[nClosures + 1]
           r == OnResult(eventHandlers, listeners, ev, fn, options) IN
       /\ eventHandlers' = r.handlers
       /\ listeners' = r.listeners
       /\ registered' = registered \cup {<<ev, fn, options>>}
    /\ jexOp' = [op |-> name, n |-> 0]
    /\ nClosures' = nClosures + 1
    /\ UNCHANGED <<inDoc, nForeign, otherThanJex>>

OnClick(options) == OnClosure("click", options, "onClick")

Delegate(ev, options) == OnClosure(ev, options, "delegate")

\* Jex.remove() without an id
Remove ==
    /\ listeners' = RemoveTracked(eventHandlers, listeners, Events)
    /\ eventHandlers' = EmptyHandlers
    /\ registered' = {}
    /\ inDoc' = FALSE
    /\ jexOp' = [op |-> "remove", n |-> Cardinality(listeners \ listeners')]
    /\ UNCHANGED <<nClosures, nForeign, otherThanJex>>

\* Jex.remove(id): this.$(id) wraps the element in a new Jex, whose
\* #eventHandlers map is empty, and calls remove() on it
RemoveById ==
    /\ IF inDoc
       THEN /\ listeners' = RemoveTracked(EmptyHandlers, listeners, Events)
            /\ inDoc' = FALSE
       ELSE UNCHANGED <<listeners, inDoc>>
    /\ jexOp' = [op |-> IF inDoc THEN "removeById" ELSE "removeMissing",
                 n |-> Cardinality(listeners \ listeners')]
    /\ UNCHANGED <<eventHandlers, registered, nClosures, nForeign, otherThanJex>>

\* jex.$(id).on(event, handler, options): a registration through another,
\* short-lived wrapper of the same element
ForeignOn(ev, handler, options) ==
    /\ inDoc
    /\ nForeign < MaxForeign
    /\ listeners' = OnResult(EmptyHandlers, listeners, ev, handler, options).listeners
    /\ nForeign' = nForeign + 1
    /\ jexOp' = [op |-> "foreignOn", n |-> 0]
    /\ UNCHANGED <<inDoc, eventHandlers, registered, nClosures, otherThanJex>>

\* Jex.mountToBody(): the element is (re)attached to the document
MountToBody ==
    /\ ~inDoc
    /\ inDoc' = TRUE
    /\ jexOp' = [op |-> "mount", n |-> 0]
    /\ UNCHANGED <<listeners, eventHandlers, registered, nClosures, nForeign, otherThanJex>>

JexNext ==
    \/ \E ev \in Events, h \in UserFns \cup {Null},
          o \in OptionValues, m \in BOOLEAN : On(ev, h, o, m)
    \/ \E ev \in Events, h \in UserFns \cup {Null} : Off(ev, h)
    \/ \E o \in OptionValues : OnClick(o)
    \/ \E ev \in Events, o \in OptionValues : Delegate(ev, o)
    \/ Remove
    \/ RemoveById
    \/ \E ev \in Events, h \in UserFns, o \in OptionValues : ForeignOn(ev, h, o)
    \/ MountToBody

\* ------------------------------------------------------------------------
\* Claims about the wrapper's listener bookkeeping
\* ------------------------------------------------------------------------

\* C1: after remove() without an id, every listener registered through the
\* wrapper's on(), onClick() or delegate() and not yet detached by off() is
\* off the element (removed with the options it was registered with), and the
\* wrapper's #eventHandlers map is empty.
C1_RemoveDetachesRegistered ==
    [][jexOp'.op = "remove" =>
          /\ eventHandlers' = EmptyHandlers
          /\ \A r \in registered : ListenerKey(r[1], r[2], r[3]) \notin listeners'
          /\ \A ev \in Events : EntryKeys(ev, eventHandlers[ev]) \cap listeners' = {}]_vars

\* remove() has just detached a capture and a non-capture listener
C1_Witness ==
    /\ jexOp.op = "remove"
    /\ jexOp.n >= 2
    /\ eventHandlers = EmptyHandlers

\* C2: once the element is destroyed by remove() or remove(id), no listener
\* registered through a Jex wrapper's on() is attached to it any more.
C2_NoListenerAfterRemove ==
    jexOp.op \in {"remove", "removeById"} => listeners = {}

OthersOf(entries, handler) ==
    LET Other(x) == x.fn # handler IN SelectSeq(entries, Other)

OffFrame(ev, handler) ==
    /\ \A e2 \in Events \ {ev} : eventHandlers'[e2] = eventHandlers[e2]
    /\ listeners' \subseteq listeners
    /\ \A k \in listeners : k[1] # ev => k \in listeners'
    /\ handler # Null =>
          /\ OthersOf(eventHandlers'[ev], handler) = OthersOf(eventHandlers[ev], handler)
          /\ \A k \in listeners : k[2] # handler => k \in listeners'
          /\ Cardinality(listeners \ listeners') <= 1
          /\ LET index == FindIndex(eventHandlers[ev], handler) IN
             index # 0 =>
                /\ Len(eventHandlers'[ev]) = Len(eventHandlers[ev]) - 1
                /\ ListenerKey(ev, handler, eventHandlers[ev][index].options) \notin listeners'
    /\ handler = Null =>
          /\ eventHandlers'[ev] = <<>>
          /\ EntryKeys(ev, eventHandlers[ev]) \cap listeners' = {}
          /\ listeners \ listeners' \subseteq EntryKeys(ev, eventHandlers[ev])

\* C8: off(event, handler) detaches that handler's registration only, and
\* off(event) detaches every handler the wrapper registered for the event;
\* registrations for other events, and in the first case other handlers of
\* the same event, stay attached and tracked.
C8_OffFrame ==
    [][\A ev \in Events, h \in UserFns \cup {Null} : Off(ev, h) => OffFrame(ev, h)]_vars

\* an off() detached a listener while another registration of the wrapper
\* is still tracked and attached
C8_Witness ==
    /\ jexOp.op \in {"offHandler", "offEvent"}
    /\ jexOp.n >= 1
    /\ \E ev \in Events : EntryKeys(ev, eventHandlers[ev]) \cap listeners # {}

\* ------------------------------------------------------------------------
\* Jex.onDocument / Jex.onWindow and the cleanup functions they return
\* ------------------------------------------------------------------------
Targets == {"document", "window"}

\* event maps {event: handler, ...} passed as first argument
EventMaps == UNION {[S -> UserFns] : S \in SUBSET Events}

\* options = {passive: true} when the argument is omitted
DefaultOptions(options) == IF options = "undefined" THEN "passive" ELSE options

RECURSIVE MapEntries(_, _, _)
\* Object.entries(eventOrEvents) as the captured {event, handler, options} records
MapEntries(evmap, evs, options) ==
    IF evs = {} THEN <<>>
    ELSE LET ev == CHOOSE e \in evs : TRUE IN
         <<[event |-> ev, handler |-> evmap[ev], options |-> options]>>
            \o MapEntries(evmap, evs \ {ev}, options)

RECURSIVE AddAll(_, _)
AddAll(ls, entries) ==
    IF entries = <<>> THEN ls
    ELSE AddAll(addEventListener(ls, Head(entries).event, Head(entries).handler,
                                 Head(entries).options), Tail(entries))

RECURSIVE CleanupNoOptions(_, _)
CleanupNoOptions(ls, entries) ==
    IF entries = <<>> THEN ls
    ELSE CleanupNoOptions(removeEventListener(ls, Head(entries).event, Head(entries).handler,
                                              "undefined"), Tail(entries))

RECURSIVE CleanupAll(_, _)
\* listeners.forEach(({event, handler, options}) => target.removeEventListener(...))
CleanupAll(ls, entries) ==
    IF entries = <<>> THEN ls
    ELSE CleanupAll(removeEventListener(ls, Head(entries).event, Head(entries).handler,
                                        Head(entries).options), Tail(entries))

RecordedKeys(entries) ==
    {ListenerKey(entries[i].event, entries[i].handler, entries[i].options) : i \in DOMAIN entries}

GlobInit ==
    /\ globalListeners = [t \in Targets |-> {}]
    /\ cleanups = <<>>
    /\ globOp = [op |-> "init", i |-> 0, n |-> 0]

Register(target, entries, name) ==
    /\ Len(cleanups) < MaxCalls
    /\ globalListeners' = [globalListeners EXCEPT ![target] = AddAll(@, entries)]
    /\ cleanups' = Append(cleanups, [target |-> target, listeners |-> entries, called |-> FALSE])
    /\ globOp' = [op |-> name, i |-> Len(cleanups) + 1, n |-> 0]

\* onDocument(event, handler, options) / onWindow(event, handler, options)
OnGlobalSingle(target, ev, handler, options) ==
    /\ Register(target,
                <<[event |-> ev, handler |-> handler, options |-> DefaultOptions(options)]>>,
                "single")
    /\ UNCHANGED otherThanGlobal

\* onDocument({event: handler, ...}, options) / onWindow({...}, options)
OnGlobalMap(target, evmap, options) ==
    /\ Register(target, MapEntries(evmap, DOMAIN evmap, DefaultOptions(options)), "map")
    /\ UNCHANGED otherThanGlobal

\* a call whose first argument is neither an object nor a string with a
\* function: nothing is registered, the returned function does nothing
OnGlobalInvalid(target) ==
    /\ Len(cleanups) < MaxCalls
    /\ cleanups' = Append(cleanups, [target |-> target, listeners |-> <<>>, called |-> FALSE])
    /\ globOp' = [op |-> "invalid", i |-> Len(cleanups) + 1, n |-> 0]
    /\ UNCHANGED <<globalListeners, otherThanGlobal>>

\* calling the function returned by the i-th call
Cleanup(i) ==
    /\ i \in DOMAIN cleanups
    /\ globalListeners' = [globalListeners EXCEPT
                              ![cleanups[i].target] = CleanupAll(@, cleanups[i].listeners)]
    /\ globOp' = [op |-> "cleanup", i |-> i,
                  n |-> Cardinality(globalListeners[cleanups[i].target]
                                      \ globalListeners'[cleanups[i].target])]
    /\ cleanups' = [cleanups EXCEPT ![i].called = TRUE]
    /\ UNCHANGED otherThanGlobal

GlobNext ==
    \/ \E t \in Targets, ev \in Events, h \in UserFns, o \in OptionValues :
          OnGlobalSingle(t, ev, h, o)
    \/ \E t \in Targets, m \in EventMaps, o \in OptionValues : OnGlobalMap(t, m, o)
    \/ \E t \in Targets : OnGlobalInvalid(t)
    \/ \E i \in 1..MaxCalls : Cleanup(i)


CleanupEffect(i) ==
    LET t == cleanups[i].target
        keys == RecordedKeys(cleanups[i].listeners) IN
    /\ keys \cap globalListeners'[t] = {}
    /\ globalListeners'[t] \subseteq globalListeners[t]
    /\ \A k \in globalListeners[t] \ keys : k \in globalListeners'[t]
    /\ \A t2 \in Targets \ {t} : globalListeners'[t2] = globalListeners[t2]
    /\ keys \cap globalListeners[t] = {} => globalListeners' = globalListeners

ClassNames == {<<"a">>, <<"b">>}

Prefixes == {<<>>, <<"+">>, <<"-">>, <<"~">>, <<"?">>}

\* the token texts a caller writes: prefixed or plain names, and bare prefixes
TokenTexts == {p \o n : p \in Prefixes, n \in ClassNames} \cup {<<"+">>, <<"~">>}

\* what stands between two consecutive tokens of a call: a blank, a comma,
\* a comma and a blank, or the boundary between two arguments
Glues == {"blank", "comma", "commablank", "argument"}

GlueText(g) ==
    CASE g = "blank" -> <<" ">>
      [] g = "comma" -> <<",">>
      [] g = "commablank" -> <<",", " ">>
      [] OTHER -> <<>>

RECURSIVE BuildArgs(_, _, _, _)
\* the argument list of the call: tokens glued into strings, a new string at
\* every "argument" boundary
BuildArgs(toks, glue, cur, acc) ==
    IF toks = <<>> THEN Append(acc, cur)
    ELSE IF glue = <<>> THEN Append(acc, cur \o Head(toks))
    ELSE IF Head(glue) = "argument"
         THEN BuildArgs(Tail(toks), Tail(glue), <<>>, Append(acc, cur \o Head(toks)))
         ELSE BuildArgs(Tail(toks), Tail(glue), cur \o Head(toks) \o GlueText(Head(glue)), acc)

RECURSIVE Join(_)
\* classes.join(' ')
Join(strs) ==
    IF strs = <<>> THEN <<>>
    ELSE IF Len(strs) = 1 THEN Head(strs)
    ELSE Head(strs) \o <<" ">> \o Join(Tail(strs))

\* .replace(/,/g, ' ')
ReplaceCommas(str) == [i \in DOMAIN str |-> IF str[i] = "," THEN " " ELSE str[i]]

RECURSIVE SplitWs(_, _, _)
\* .split(/\s+/).filter(Boolean): the maximal runs of non-blank characters
SplitWs(str, cur, acc) ==
    IF str = <<>> THEN (IF cur = <<>> THEN acc ELSE Append(acc, cur))
    ELSE IF Head(str) = " "
         THEN SplitWs(Tail(str), <<>>, IF cur = <<>> THEN acc ELSE Append(acc, cur))
         ELSE SplitWs(Tail(str), Append(cur, Head(str)), acc)

Tokenize(args) == SplitWs(ReplaceCommas(Join(args)), <<>>, <<>>)

\* the `actions` table: what a prefixed token does to the classList
ActionsToggleAsAdd(prefix, name, list) ==
    IF name = <<>> THEN list
    ELSE CASE prefix = "-" -> list \ {name}
           [] prefix = "~" -> list \cup {name}
           [] prefix = "+" -> list \cup {name}
           [] OTHER -> list

Actions(prefix, name, list) ==
    IF name = <<>> THEN list
    ELSE CASE prefix = "-" -> list \ {name}
           [] prefix = "~" -> (IF name \in list THEN list \ {name} ELSE list \cup {name})
           [] prefix = "+" -> list \cup {name}
           [] OTHER -> list

RECURSIVE ClsLoop(_, _)
\* for (const cls of tokens) {...}: the classList after the loop and the
\* value returned ("this", or the answer of the first '?' token)
ClsLoop(tokens, list) ==
    IF tokens = <<>> THEN [list |-> list, result |-> "this"]
    ELSE LET cls == Head(tokens) IN
         IF cls[1] \in {"-", "~", "+", "?"}
         THEN IF cls[1] = "?"
              THEN [list |-> list,
                    result |-> IF Tail(cls) = <<>> THEN "empty"
                               ELSE IF Tail(cls) \in list THEN "true" ELSE "false"]
              ELSE ClsLoop(Tail(tokens), Actions(cls[1], Tail(cls), list))
         ELSE ClsLoop(Tail(tokens), list \cup {cls})

\* cls(...classes) on a wrapper whose element has a classList
ClsResult(args, list) ==
    IF args = <<>> THEN [list |-> list, result |-> "classList"]
    ELSE ClsLoop(Tokenize(args), list)

ClsInit ==
    /\ classList = {}
    /\ clsOp = [op |-> "init", toks |-> <<>>, glue |-> <<>>, result |-> "none"]

\* element.cls(arg1, arg2, ...)
Cls(toks, glue) ==
    /\ LET r == ClsResult(IF toks = <<>> THEN <<>> ELSE BuildArgs(toks, glue, <<>>, <<>>),
                          classList) IN
       /\ classList' = r.list
       /\ clsOp' = [op |-> "cls", toks |-> toks, glue |-> glue, result |-> r.result]
    /\ UNCHANGED otherThanCls

GlueSeqs(n) == IF n <= 1 THEN {<<>>} ELSE [1..(n - 1) -> Glues]

ClsNext ==
    \E n \in 0..MaxTokens : \E toks \in [1..n -> TokenTexts], glue \in GlueSeqs(n) :
        Cls(toks, glue)

\* the claim's reading of one token: '+name' and a plain name add, '-name'
\* removes, '~name' toggles
TokenEffect(tok, set) ==
    CASE tok[1] = "+" -> set \cup {Tail(tok)}
      [] tok[1] = "-" -> set \ {Tail(tok)}
      [] tok[1] = "~" -> (IF Tail(tok) \in set THEN set \ {Tail(tok)} ELSE set \cup {Tail(tok)})
      [] OTHER -> set \cup {tok}

RECURSIVE Sequentially(_, _)
Sequentially(toks, set) ==
    IF toks = <<>> THEN set ELSE Sequentially(Tail(toks), TokenEffect(Head(toks), set))

\* a call the claim is about: at least one token, each one a name with an
\* optional '+', '-' or '~' in front
ModifyingCall(toks) ==
    /\ toks # <<>>
    /\ \A i \in DOMAIN toks :
          /\ toks[i][1] # "?"
          /\ toks[i][1] \in {"+", "-", "~"} => Len(toks[i]) > 1

\* C10: cls() applies its tokens strictly left to right ('+name' and a plain
\* name add, '-name' removes, '~name' toggles), the class set afterwards is
\* the sequential application of the tokens to the previous set, however the
\* tokens are spread over arguments, blanks and commas, and the call returns
\* the wrapper.
C10_ClsSequential ==
    [][(clsOp'.op = "cls" /\ ModifyingCall(clsOp'.toks)) =>
          /\ classList' = Sequentially(clsOp'.toks, classList)
          /\ clsOp'.result = "this"
          /\ (Len(clsOp'.toks) = 2 /\ clsOp'.toks[1] = clsOp'.toks[2]
                /\ clsOp'.toks[1][1] = "~") => classList' = classList]_vars

\* a call with a toggle followed by a removal of the same class, in two
\* arguments, has left the class off
C10_Witness ==
    /\ clsOp.op = "cls"
    /\ clsOp.toks = <<(<<"~", "a">>), (<<"-", "a">>)>>
    /\ clsOp.glue = <<"argument">>
    /\ clsOp.result = "this"
    /\ classList = {<<"b">>}

\* ------------------------------------------------------------------------
\* JexToast
\* ------------------------------------------------------------------------
\* options.duration of the default configuration
DefaultDuration == 5000
\* the duplicate window of #isDuplicate
DuplicateWindow == 1000

\* the (type, message) pairs shown
ToastKinds == {<<"info", "m1">>, <<"info", "m2">>, <<"error", "m1">>}
\* the duration argument of show(): omitted, 0 (persistent) or a delay
\* show()'s duration parameter when the argument is omitted (null)
NullDuration == -1
DurationArgs == {NullDuration, 0}
\* #lastToast = null
NoToast == [type |-> Null, message |-> Null, timestamp |-> 0]
NoShown == [type |-> Null, message |-> Null, timestamp |-> 0, cleared |-> FALSE]
MaxVisibleChoices == {1, 2}
ToastIds == 1..(MaxShows + 1)

ActiveSet == {activeToasts[i] : i \in DOMAIN activeToasts}

\* #isDuplicate(type, message)
IsDuplicateFlipped(type, message) ==
    /\ lastToast # NoToast
    /\ lastToast.type = type
    /\ lastToast.message = message
    /\ now - lastToast.timestamp >= DuplicateWindow

IsDuplicate(type, message) ==
    /\ lastToast # NoToast
    /\ lastToast.type = type
    /\ lastToast.message = message
    /\ now - lastToast.timestamp < DuplicateWindow

\* the first entry of #activeToasts with this type and message, 0 if none
FirstMatch(type, message) ==
    IF \E i \in DOMAIN activeToasts :
          toastData[activeToasts[i]].type = type /\ toastData[activeToasts[i]].message = message
    THEN LET i == CHOOSE k \in DOMAIN activeToasts :
                    /\ toastData[activeToasts[k]].type = type
                    /\ toastData[activeToasts[k]].message = message
                    /\ \A j \in DOMAIN activeToasts :
                          (toastData[activeToasts[j]].type = type
                           /\ toastData[activeToasts[j]].message = message) => k <= j
         IN activeToasts[i]
    ELSE 0

NoData == [type |-> Null, message |-> Null, duration |-> 0]

\* The toast state is passed through the private methods as a record.
ToastState ==
    [container |-> container, activeToasts |-> activeToasts, toastData |-> toastData,
     visibleToasts |-> visibleToasts, isVisible |-> isVisible, queue |-> queue,
     lastToast |-> lastToast, autoPending |-> autoPending, exitPending |-> exitPending,
     lastShown |-> lastShown]

\* #showToast(type, message, duration) for the toast element `id`
ShowToast(st, id, type, message, duration) ==
    [st EXCEPT
        !.container = @ \cup {id},
        !.activeToasts = Append(@, id),
        !.toastData = [@ EXCEPT ![id] = [type |-> type, message |-> message,
                                         duration |-> duration]],
        !.visibleToasts = @ + 1,
        !.isVisible = TRUE,
        !.lastToast = [type |-> type, message |-> message, timestamp |-> now],
        !.autoPending = IF duration > 0 THEN @ \cup {id} ELSE @,
        !.lastShown = [type |-> type, message |-> message, timestamp |-> now,
                       cleared |-> FALSE]]

RemoveToastNoExit(st, id) ==
    IF id \notin {st.activeToasts[i] : i \in DOMAIN st.activeToasts} THEN st
    ELSE [st EXCEPT !.autoPending = @ \ {id}]

\* #removeToast(toastElement): clear the timer, start the exit animation
RemoveToast(st, id) ==
    IF id \notin {st.activeToasts[i] : i \in DOMAIN st.activeToasts} THEN st
    ELSE [st EXCEPT
            !.autoPending = @ \ {id},
            !.exitPending = [@ EXCEPT ![id] = @ + 1]]

\* #removeOldestToast()
RemoveOldestToast(st) ==
    IF st.activeToasts = <<>> THEN st ELSE RemoveToast(st, Head(st.activeToasts))

\* #processQueue()
ProcessQueueLifo(st) ==
    IF Len(st.queue) > 0 /\ st.visibleToasts < toastOptions.maxVisible
    THEN LET e == st.queue[Len(st.queue)] IN
         ShowToast([st EXCEPT !.queue = SubSeq(@, 1, Len(@) - 1)],
                   e.sid, e.type, e.message, e.duration)
    ELSE st

ProcessQueue(st) ==
    IF Len(st.queue) > 0 /\ st.visibleToasts < toastOptions.maxVisible
    THEN LET e == Head(st.queue) IN
         ShowToast([st EXCEPT !.queue = Tail(@)], e.sid, e.type, e.message, e.duration)
    ELSE st

\* #handleDuplicate(type, message): restart the timer of the matching toast
HandleDuplicate(st, type, message) ==
    LET id == FirstMatch(type, message) IN
    IF id = 0 THEN st ELSE [st EXCEPT !.autoPending = @ \cup {id}]

\* drop the ids of the Map that are not in `ids`
RECURSIVE Without(_, _)
Without(seq, id) ==
    IF seq = <<>> THEN <<>>
    ELSE IF Head(seq) = id THEN Without(Tail(seq), id)
    ELSE <<Head(seq)>> \o Without(Tail(seq), id)

\* the callback of the exit animation started by #removeToast
ExitCallback(st, id) ==
    ProcessQueue(
        LET n == st.visibleToasts - 1 IN
        [st EXCEPT
            !.container = @ \ {id},
            !.activeToasts = Without(@, id),
            !.toastData = [@ EXCEPT ![id] = NoData],
            !.visibleToasts = n,
            !.isVisible = IF n = 0 THEN FALSE ELSE @,
            !.exitPending = [@ EXCEPT ![id] = @ - 1]])

SetToastState(st) ==
    /\ container' = st.container
    /\ activeToasts' = st.activeToasts
    /\ toastData' = st.toastData
    /\ visibleToasts' = st.visibleToasts
    /\ isVisible' = st.isVisible
    /\ queue' = st.queue
    /\ lastToast' = st.lastToast
    /\ autoPending' = st.autoPending
    /\ exitPending' = st.exitPending
    /\ lastShown' = st.lastShown

otherThanToast == <<jexVars, globVars, clsVars, loggerVars, lookupVars, collVars, appVars,
    consoleVars, toggleVars, tipVars, inspVars>>

ToastInit ==
    /\ toastOptions \in [maxVisible : MaxVisibleChoices, queueMessages : BOOLEAN,
                    detectDuplicates : BOOLEAN, duration : {DefaultDuration}]
    /\ mounted = FALSE
    /\ container = {}
    /\ activeToasts = <<>>
    /\ toastData = [id \in ToastIds |-> NoData]
    /\ visibleToasts = 0
    /\ isVisible = FALSE
    /\ queue = <<>>
    /\ lastToast = NoToast
    /\ autoPending = {}
    /\ exitPending = [id \in ToastIds |-> 0]
    /\ now = 0
    /\ nShows = 0
    /\ lastShown = NoShown
    /\ toastOp = [op |-> "init", outcome |-> "none"]

\* show(type, message, duration): what the call does to the notifier
ShowEffect(type, message, duration) ==
    /\ nShows' = nShows + 1
    /\ mounted' = TRUE
    /\ LET sid == nShows + 1
           actualDuration == IF duration # NullDuration THEN duration ELSE toastOptions.duration
       IN
       IF toastOptions.detectDuplicates /\ IsDuplicate(type, message)
       THEN /\ SetToastState(HandleDuplicate(ToastState, type, message))
            /\ toastOp' = [op |-> "show", outcome |-> "duplicate"]
       ELSE IF visibleToasts >= toastOptions.maxVisible
       THEN IF toastOptions.queueMessages
            THEN /\ SetToastState([ToastState EXCEPT
                                      !.queue = Append(@, [type |-> type, message |-> message,
                                                           duration |-> actualDuration,
                                                           sid |-> sid])])
                 /\ toastOp' = [op |-> "show", outcome |-> "queued"]
            ELSE /\ SetToastState(ShowToast(RemoveOldestToast(ToastState), sid, type, message,
                                            actualDuration))
                 /\ toastOp' = [op |-> "show", outcome |-> "replaced"]
       ELSE /\ SetToastState(ShowToast(ToastState, sid, type, message, actualDuration))
            /\ toastOp' = [op |-> "show", outcome |-> "shown"]
    /\ UNCHANGED <<toastOptions, now>>

\* show(type, message, duration)
Show(type, message, duration) ==
    /\ nShows < MaxShows
    /\ ShowEffect(type, message, duration)
    /\ UNCHANGED otherThanToast

\* a click on the close button of a toast element that is in the page
ClickClose(id) ==
    /\ id \in container
    /\ exitPending[id] < MaxExits
    /\ SetToastState(RemoveToast(ToastState, id))
    /\ toastOp' = [op |-> "click", outcome |-> "none"]
    /\ UNCHANGED <<toastOptions, mounted, now, nShows, otherThanToast>>

\* the auto-removal timer of a toast fires
AutoTimerFires(id) ==
    /\ id \in autoPending
    /\ exitPending[id] < MaxExits
    /\ SetToastState(RemoveToast([ToastState EXCEPT !.autoPending = @ \ {id}], id))
    /\ toastOp' = [op |-> "timer", outcome |-> "none"]
    /\ UNCHANGED <<toastOptions, mounted, now, nShows, otherThanToast>>

\* an exit animation is over
ExitDone(id) ==
    /\ exitPending[id] > 0
    /\ SetToastState(ExitCallback(ToastState, id))
    /\ toastOp' = [op |-> "exit", outcome |-> IF Len(queue') < Len(queue) THEN "dequeued"
                                               ELSE "none"]
    /\ UNCHANGED <<toastOptions, mounted, now, nShows, otherThanToast>>

\* the state reset of clearAll()
ClearedState(st) ==
    [st EXCEPT
        !.autoPending = @ \ {st.activeToasts[i] : i \in DOMAIN st.activeToasts},
        !.queue = <<>>,
        !.container = {},
        !.activeToasts = <<>>,
        !.toastData = [id \in ToastIds |-> NoData],
        !.visibleToasts = 0,
        !.lastToast = NoToast,
        !.isVisible = FALSE,
        !.lastShown = IF @ = NoShown THEN @ ELSE [@ EXCEPT !.cleared = TRUE]]

\* clearAll()
ClearAll ==
    /\ SetToastState(ClearedState(ToastState))
    /\ toastOp' = [op |-> "clearAll", outcome |-> "none"]
    /\ UNCHANGED <<toastOptions, mounted, now, nShows, otherThanToast>>

\* destroy()
Destroy ==
    /\ SetToastState(ClearedState(ToastState))
    /\ mounted' = FALSE
    /\ toastOp' = [op |-> "destroy", outcome |-> "none"]
    /\ UNCHANGED <<toastOptions, now, nShows, otherThanToast>>

\* time passes
Tick ==
    /\ now + TickMs <= MaxTime
    /\ now' = now + TickMs
    /\ toastOp' = [op |-> "tick", outcome |-> "none"]
    /\ UNCHANGED <<toastOptions, mounted, container, activeToasts, toastData, visibleToasts,
                   isVisible, queue, lastToast, autoPending, exitPending, nShows, lastShown,
                   otherThanToast>>

ToastNext ==
    \/ \E k \in ToastKinds, d \in DurationArgs : Show(k[1], k[2], d)
    \/ \E id \in ToastIds : ClickClose(id)
    \/ \E id \in ToastIds : AutoTimerFires(id)
    \/ \E id \in ToastIds : ExitDone(id)
    \/ ClearAll
    \/ Destroy
    \/ Tick

\* C3: with queueMessages enabled the container never holds more than
\* options.maxVisible toast elements.
C3_ContainerWithinMaxVisible ==
    toastOptions.queueMessages => Cardinality(container) <= toastOptions.maxVisible

Queued(sid) == \E i \in DOMAIN queue : queue[i].sid = sid

\* order: a queued message is displayed only from the head of the queue, by
\* the completion of an exit animation, at most one per step, and messages
\* enter the queue at its tail
QueueFifo ==
    [][/\ Cardinality(container' \ container) <= 1
       /\ \A sid \in ToastIds :
             (Queued(sid) /\ sid \in container') =>
                /\ sid = Head(queue).sid
                /\ queue' = Tail(queue)
                /\ toastOp'.op = "exit"
       /\ \A sid \in ToastIds :
             (Queued(sid)' /\ ~Queued(sid)) =>
                /\ queue' = Append(queue, queue'[Len(queue')])
                /\ queue'[Len(queue')].sid = sid]_vars

PersistentActive == \E id \in ActiveSet : toastData[id].duration = 0

\* progress: a queued message is eventually displayed unless a persistent
\* toast (duration 0) occupies a slot
QueuedEventuallyDisplayed ==
    \A sid \in 1..MaxShows : Queued(sid) ~> (sid \in container \/ PersistentActive)

C6_AutoDismissed ==
    \A id \in 1..MaxShows :
        (id \in container /\ id \in ActiveSet /\ toastData[id].duration > 0)
            ~> (id \notin container /\ id \notin ActiveSet)

\* the timer of a displayed toast fired and started its exit animation,
\* with no click on its close button
C6_Witness ==
    /\ toastOp.op = "timer"
    /\ \E id \in container :
          /\ toastData[id].duration > 0
          /\ exitPending[id] = 1
          /\ id \notin autoPending

SameAsLastShown(type, message) ==
    /\ lastShown # NoShown
    /\ lastShown.type = type
    /\ lastShown.message = message
    /\ now - lastShown.timestamp < DuplicateWindow

NothingDisplayedOrQueued ==
    /\ container' = container
    /\ activeToasts' = activeToasts
    /\ queue' = queue
    /\ visibleToasts' = visibleToasts

\* C5 (as stated): with detectDuplicates, a show() with the type and message
\* of the most recently displayed toast, less than 1000 ms after it was
\* displayed, creates no toast element and no queue entry.
C5_RepeatOfLastShownIgnored ==
    [][\A k \in ToastKinds, d \in DurationArgs :
          (Show(k[1], k[2], d) /\ toastOptions.detectDuplicates
             /\ SameAsLastShown(k[1], k[2])) => NothingDisplayedOrQueued]_vars

\* C5 (amended): the same, provided clearAll()/destroy() was not called
\* since that toast was displayed.
C5_RepeatIgnoredUnlessCleared ==
    [][\A k \in ToastKinds, d \in DurationArgs :
          (Show(k[1], k[2], d) /\ toastOptions.detectDuplicates
             /\ SameAsLastShown(k[1], k[2]) /\ ~lastShown.cleared)
            => NothingDisplayedOrQueued]_vars

\* a show() was recognised as a duplicate while its toast is displayed
C5_Witness ==
    /\ toastOp = [op |-> "show", outcome |-> "duplicate"]
    /\ toastOptions.detectDuplicates
    /\ Cardinality(container) = 1
    /\ nShows = 2

\* C17: isVisible is true exactly when at least one toast is displayed, i.e.
\* when the #activeToasts Map is non-empty.
C17_VisibleIffActive == isVisible <=> (activeToasts # <<>>)

\* C19: #visibleToasts equals the number of entries of #activeToasts and is
\* never negative, also after a second click on a close button during the
\* exit animation, two removals of the same oldest toast, and clearAll()
\* with exit animations pending.
C19_CounterMatchesMap ==
    /\ visibleToasts = Len(activeToasts)
    /\ visibleToasts >= 0

\* clearAll() ran and show() has not displayed a toast since
ClearedAndNoShowSince == lastShown.cleared

\* C20: after clearAll() the queue is empty, no toast is active, and no timer
\* callback scheduled before the call changes the toast state or displays a
\* toast before the next show().
C20_ClearAllCancelsCallbacks ==
    ClearedAndNoShowSince =>
        /\ queue = <<>>
        /\ activeToasts = <<>>
        /\ container = {}
        /\ visibleToasts = 0
        /\ ~isVisible

\* no exit animation is running
NoExitRunning == \A id \in ToastIds : exitPending[id] = 0

\* C21: with queueMessages disabled a show() at capacity removes the oldest
\* active toast and displays the new one: the number of displayed toasts
\* never exceeds maxVisible and nothing is placed on the queue.  The toast
\* being removed is counted only until its exit animation is over.
C21_ReplaceKeepsWithinMaxVisible ==
    ~toastOptions.queueMessages =>
        /\ NoExitRunning => Cardinality(container) <= toastOptions.maxVisible
        /\ queue = <<>>

\* C22: a duplicate show() resets the matching toast's auto-removal countdown
\* to the duration the toast was displayed with; a toast displayed with
\* duration 0 has no countdown and keeps none after a duplicate.
C22_DuplicateKeepsPersistent ==
    \A id \in ActiveSet : toastData[id].duration = 0 => id \notin autoPending

\* ------------------------------------------------------------------------
\* JexLogger: the console interceptors and the message buffer
\* ------------------------------------------------------------------------
ConsoleMethods == {"info", "error", "log"}
LogContents == {"x", "y"}
Welcome == "welcome"
NoMessage == [id |-> 0, level |-> Null, formatted |-> <<>>, count |-> 0]

LoggerState ==
    [messages |-> messages, lastMessage |-> lastMessage, messageIndex |-> messageIndex,
     messageCount |-> messageCount, outcome |-> "none", id |-> 0]

\* if (messages.length > maxLogs) messages.shift()
LimitMessagesPop(msgs, maxLogs) ==
    IF Len(msgs) > maxLogs THEN SubSeq(msgs, 1, Len(msgs) - 1) ELSE msgs

LimitMessages(msgs, maxLogs) ==
    IF Len(msgs) > maxLogs THEN Tail(msgs) ELSE msgs

\* lastMessage.count++ : the object is shared with the buffer entry
CountUp(msgs, id) ==
    [i \in DOMAIN msgs |-> IF msgs[i].id = id THEN [msgs[i] EXCEPT !.count = @ + 1]
                           ELSE msgs[i]]

\* JexLogger.js #formatMessage: [index] [timestamp] [LEVEL] content
FormatMessage(index, level, content, config) ==
    <<IF config.showIndex THEN index ELSE -1, logClock, level, content>>

\* JexLogger.js #addLogMessage(level, args)
AddLogMessage(st, level, content, config) ==
    LET formatted == FormatMessage(st.messageIndex, level, content, config) IN
    IF config.groupSimilar /\ st.lastMessage # NoMessage
       /\ st.lastMessage.formatted = formatted
    THEN [st EXCEPT !.lastMessage.count = @ + 1,
                    !.messages = CountUp(@, st.lastMessage.id),
                    !.outcome = "grouped"]
    ELSE LET message == [id |-> st.messageIndex + 1, level |-> level,
                         formatted |-> formatted, count |-> 1] IN
         [st EXCEPT !.messageIndex = @ + 1,
                    !.messages = LimitMessages(Append(@, message), config.maxLogs),
                    !.lastMessage = message,
                    !.messageCount = @ + 1,
                    !.outcome = "appended",
                    !.id = message.id]

\* part_002 #formatLogMessage and #addMessage(message)
AddMessage(st, level, content, config) ==
    LET index == st.messageIndex + 1
        text == <<index, logClock, level, content>>
        message == [id |-> index, level |-> level, formatted |-> text, count |-> 1]
        lastMsg == IF st.messages = <<>> THEN NoMessage ELSE st.messages[Len(st.messages)]
    IN
    IF lastMsg # NoMessage /\ lastMsg.formatted = text /\ lastMsg.level = level
    THEN [st EXCEPT !.messageIndex = index,
                    !.messages = CountUp(@, lastMsg.id),
                    !.outcome = "grouped"]
    ELSE [st EXCEPT !.messageIndex = index,
                    !.messages = LimitMessages(Append(@, message), config.maxLogs),
                    !.lastMessage = message,
                    !.outcome = "appended",
                    !.id = message.id]

\* a call of console[method] while the interceptors of #interceptConsole are
\* installed; part_002 intercepts the five level methods but not console.log
Intercept(st, method, content) ==
    IF loggerSource = "JexLogger.js"
    THEN AddLogMessage(st, IF method = "log" THEN "info" ELSE method, content, loggerConfig)
    ELSE IF method = "log" THEN st ELSE AddMessage(st, method, content, loggerConfig)

SetLoggerState(st) ==
    /\ messages' = st.messages
    /\ lastMessage' = st.lastMessage
    /\ messageIndex' = st.messageIndex
    /\ messageCount' = st.messageCount

otherThanLogger == <<jexVars, globVars, clsVars, toastVars, lookupVars, collVars, appVars,
    consoleVars, toggleVars, tipVars, inspVars>>

LoggerConfigs ==
    [maxLogs : 0..MaxLogsOption, groupSimilar : BOOLEAN, showIndex : BOOLEAN]

\* no logger has been constructed yet
LoggerInit ==
    /\ loggerSource = Null
    /\ loggerConfig = [maxLogs |-> 0, groupSimilar |-> FALSE, showIndex |-> FALSE]
    /\ logClock = 0
    /\ messages = <<>>
    /\ lastMessage = NoMessage
    /\ messageIndex = 0
    /\ messageCount = 0
    /\ intercepted = FALSE
    /\ nLogCalls = 0
    /\ logOp = [op |-> "init", outcome |-> "none", id |-> 0]

\* new JexLogger(options): the options are merged into the defaults, the
\* interceptors are installed, then the welcome message is logged; the
\* constructor of part_002 takes no options, its cap is the fixed default
Construct(source, config) ==
    /\ loggerSource = Null
    /\ source = "part_002" =>
         (config.groupSimilar /\ config.showIndex /\ config.maxLogs = MaxLogsOption)
    /\ loggerSource' = source
    /\ loggerConfig' = config
    /\ intercepted' = TRUE
    /\ LET st == IF source = "JexLogger.js"
                 THEN AddLogMessage(LoggerState, "info", Welcome, config)
                 ELSE AddMessage(LoggerState, "info", Welcome, config) IN
       /\ SetLoggerState(st)
       /\ logOp' = [op |-> "construct", outcome |-> st.outcome, id |-> st.id]
    /\ UNCHANGED <<logClock, nLogCalls, otherThanLogger>>

\* the page calls console.info / console.error / console.log
ConsoleCall(method, content) ==
    /\ loggerSource # Null
    /\ nLogCalls < MaxLogCalls
    /\ nLogCalls' = nLogCalls + 1
    /\ LET st == IF intercepted THEN Intercept(LoggerState, method, content)
                 ELSE LoggerState IN
       /\ SetLoggerState(st)
       /\ logOp' = [op |-> "console", outcome |-> st.outcome, id |-> st.id]
    /\ UNCHANGED <<loggerSource, loggerConfig, intercepted, logClock, otherThanLogger>>

\* clearConsole(): reset the buffer, then log the welcome message
ClearConsole ==
    /\ loggerSource # Null
    /\ LET cleared == [LoggerState EXCEPT !.messages = <<>>, !.lastMessage = NoMessage,
                                          !.messageIndex = 0,
                                          !.messageCount = IF loggerSource = "JexLogger.js"
                                                           THEN 0 ELSE @]
           st == IF intercepted THEN Intercept(cleared, "info", Welcome) ELSE cleared IN
       /\ SetLoggerState(st)
       /\ logOp' = [op |-> "clearConsole", outcome |-> st.outcome, id |-> st.id]
    /\ UNCHANGED <<loggerSource, loggerConfig, intercepted, logClock, nLogCalls,
                   otherThanLogger>>

\* destroy(): the original console methods are restored, the buffer is emptied
DestroyLogger ==
    /\ loggerSource # Null
    /\ intercepted' = FALSE
    /\ messages' = <<>>
    /\ messageIndex' = 0
    /\ messageCount' = IF loggerSource = "JexLogger.js" THEN 0 ELSE messageCount
    /\ logOp' = [op |-> "destroy", outcome |-> "none", id |-> 0]
    /\ UNCHANGED <<loggerSource, loggerConfig, lastMessage, logClock, nLogCalls,
                   otherThanLogger>>

\* a second passes
LogTick ==
    /\ logClock < MaxLogTime
    /\ logClock' = logClock + 1
    /\ logOp' = [op |-> "tick", outcome |-> "none", id |-> 0]
    /\ UNCHANGED <<loggerSource, loggerConfig, messages, lastMessage, messageIndex,
                   messageCount, intercepted, nLogCalls, otherThanLogger>>

LoggerNext ==
    \/ \E source \in {"JexLogger.js", "part_002"}, config \in LoggerConfigs :
          Construct(source, config)
    \/ \E m \in ConsoleMethods, c \in LogContents : ConsoleCall(m, c)
    \/ ClearConsole
    \/ DestroyLogger
    \/ LogTick

WithinCap == Len(messages) <= loggerConfig.maxLogs

\* an append to a full buffer drops the oldest entry and keeps the new one
OldestDroppedNewestKept ==
    (logOp'.op = "console" /\ logOp'.outcome = "appended"
       /\ Len(messages) = loggerConfig.maxLogs) =>
        /\ messages' # <<>>
        /\ messages'[Len(messages')].id = logOp'.id
        /\ Len(messages') = Len(messages)
        /\ \A i \in 1..(Len(messages) - 1) : messages'[i] = messages[i + 1]

\* C7 (as stated): the buffer never holds more than maxLogs entries, and an
\* append that would exceed the cap drops the oldest entry and keeps the
\* newest one.
C7_BufferCapped == []WithinCap /\ [][OldestDroppedNewestKept]_vars

\* C7 (amended): the buffer never holds more than maxLogs entries, and for
\* maxLogs >= 1 an append that would exceed the cap drops the oldest entry
\* and keeps the newest one.
C7_BufferCappedPositive ==
    []WithinCap /\ [][loggerConfig.maxLogs >= 1 => OldestDroppedNewestKept]_vars

\* a console call was appended to a full buffer of two entries
C7_Witness ==
    /\ logOp.op = "console"
    /\ logOp.outcome = "appended"
    /\ loggerConfig.maxLogs = 2
    /\ Len(messages) = 2
    /\ messages[2].id = logOp.id
    /\ messages[1].id = logOp.id - 1
    /\ logOp.id >= 3

otherThanLookup == <<jexVars, globVars, clsVars, toastVars, loggerVars, collVars, appVars,
    consoleVars, toggleVars, tipVars, inspVars>>

\* ------------------------------------------------------------------------
\* Lookups of the wrapper: $, select, find, closest
\* The document is html > box (id "b", class "a") > item (id "i", class "a");
\* strings are sequences of one-character strings.
\* ------------------------------------------------------------------------
Elements == <<"html", "box", "item">>
ElementSet == {"html", "box", "item"}
ElementId(e) == IF e = "box" THEN <<"b">> ELSE IF e = "item" THEN <<"i">> ELSE <<>>

\* the selectors used: #b, #i, #n (no such id), .a, [ (a syntax error), and ""
Selectors == {<<"#", "b">>, <<"#", "i">>, <<"#", "n">>, <<".", "a">>, <<"[">>, <<>>}
IdArgs == {<<"b">>, <<"#", "b">>, <<"?", "b">>, <<"?", "#", "i">>, <<"n">>, <<"?", "n">>,
           <<"?">>, <<>>}

\* the CSS selector parser accepts the selector
ValidSyntax(sel) == Len(sel) = 2 /\ sel[1] \in {"#", "."}

\* Element.matches for a selector of valid syntax
Matches(e, sel) ==
    \/ sel[1] = "#" /\ ElementId(e) = Tail(sel)
    \/ sel[1] = "." /\ sel[2] = "a" /\ e \in {"box", "item"}

Descendants(e, box, item) ==
    IF e = "html" THEN (IF box THEN {"box"} \cup (IF item THEN {"item"} ELSE {}) ELSE {})
    ELSE IF e = "box" THEN (IF item THEN {"item"} ELSE {})
    ELSE {}

\* the element and its ancestors, nearest first
Inclusive(e, box, item) ==
    IF e = "item" THEN <<"item">> \o (IF item THEN <<"box">> \o (IF box THEN <<"html">> ELSE <<>>)
                                      ELSE <<>>)
    ELSE IF e = "box" THEN <<"box">> \o (IF box THEN <<"html">> ELSE <<>>)
    ELSE <<"html">>

\* the elements of a sequence that satisfy the selector, in the sequence's order
MatchesIn(seq, sel) == SelectSeq(seq, LAMBDA e : Matches(e, sel))

\* document.getElementById
GetElementById(id, box, item) ==
    LET found == SelectSeq(Elements, LAMBDA e : e \in Descendants("html", box, item)
                                                /\ id # <<>> /\ ElementId(e) = id) IN
    IF found = <<>> THEN Null ELSE found[1]

\* Element.querySelectorAll; the outcome is "SyntaxError" for an invalid selector
QuerySelectorAll(ref, sel, box, item) ==
    IF ~ValidSyntax(sel) THEN [thrown |-> TRUE, els |-> <<>>]
    ELSE [thrown |-> FALSE,
          els |-> MatchesIn(SelectSeq(Elements, LAMBDA e : e \in Descendants(ref, box, item)),
                            sel)]

\* Element.closest
ElementClosest(ref, sel, box, item) ==
    IF ~ValidSyntax(sel) THEN [thrown |-> TRUE, els |-> <<>>]
    ELSE [thrown |-> FALSE, els |-> MatchesIn(Inclusive(ref, box, item), sel)]

StartsWith(str, c) == Len(str) > 0 /\ str[1] = c

Outcome(kind, els, logged) == [kind |-> kind, els |-> els, logged |-> logged]

\* Jex.$(id)
DollarResult(id, box, item) ==
    IF id = <<>> THEN Outcome("null", <<>>, "warn")
    ELSE LET checkExists == StartsWith(id, "?")
             id1 == IF checkExists THEN Tail(id) ELSE id
             el == GetElementById(IF StartsWith(id1, "#") THEN Tail(id1) ELSE id1, box, item)
         IN IF checkExists THEN Outcome(IF el # Null THEN "true" ELSE "false", <<>>, "none")
            ELSE IF el = Null THEN Outcome("null", <<>>, "warn")
            ELSE Outcome("jex", <<el>>, "none")

\* Jex.select(selector)
SelectResult(ref, sel, box, item) ==
    IF sel = <<>> THEN Outcome("null", <<>>, "warn")
    ELSE LET q == QuerySelectorAll(ref, sel, box, item) IN
         IF q.thrown THEN Outcome("null", <<>>, "error")
         ELSE IF q.els = <<>> THEN Outcome("null", <<>>, "warn")
         ELSE Outcome("jex", <<q.els[1]>>, "none")

\* Jex.find(selector)
FindResult(ref, sel, box, item) ==
    IF sel = <<>> THEN Outcome("collection", <<>>, "warn")
    ELSE LET q == QuerySelectorAll(ref, sel, box, item) IN
         IF q.thrown THEN Outcome("collection", <<>>, "error")
         ELSE Outcome("collection", q.els, "none")

\* Jex.closest(selector): the SyntaxError of Element.closest is not caught
ClosestResult(ref, sel, box, item) ==
    LET c == ElementClosest(ref, sel, box, item) IN
    IF c.thrown THEN Outcome("throws", <<>>, "none")
    ELSE IF c.els = <<>> THEN Outcome("null", <<>>, "none")
    ELSE Outcome("jex", <<c.els[1]>>, "none")

LookupInit ==
    /\ boxInDoc = TRUE
    /\ itemInBox = TRUE
    /\ lookupOp = [method |-> "init", ref |-> "html", arg |-> <<>>,
                   result |-> Outcome("none", <<>>, "none")]

LookupRecord(method, ref, arg, result) ==
    [method |-> method, ref |-> ref, arg |-> arg, result |-> result]

Dollar(ref, id) ==
    /\ lookupOp' = LookupRecord("$", ref, id, DollarResult(id, boxInDoc, itemInBox))
    /\ UNCHANGED <<boxInDoc, itemInBox, otherThanLookup>>

Select(ref, sel) ==
    /\ lookupOp' = LookupRecord("select", ref, sel, SelectResult(ref, sel, boxInDoc, itemInBox))
    /\ UNCHANGED <<boxInDoc, itemInBox, otherThanLookup>>

Find(ref, sel) ==
    /\ lookupOp' = LookupRecord("find", ref, sel, FindResult(ref, sel, boxInDoc, itemInBox))
    /\ UNCHANGED <<boxInDoc, itemInBox, otherThanLookup>>

Closest(ref, sel) ==
    /\ lookupOp' = LookupRecord("closest", ref, sel,
                                ClosestResult(ref, sel, boxInDoc, itemInBox))
    /\ UNCHANGED <<boxInDoc, itemInBox, otherThanLookup>>

\* remove() on the wrapper of box or item takes the element out of its parent
Detach(e) ==
    /\ e \in {"box", "item"}
    /\ boxInDoc' = IF e = "box" THEN FALSE ELSE boxInDoc
    /\ itemInBox' = IF e = "item" THEN FALSE ELSE itemInBox
    /\ lookupOp' = [method |-> "remove", ref |-> e, arg |-> <<>>,
                    result |-> Outcome("none", <<>>, "none")]
    /\ UNCHANGED otherThanLookup

\* append() puts box back under the document element, item back under box
Attach(e) ==
    /\ e \in {"box", "item"}
    /\ boxInDoc' = IF e = "box" THEN TRUE ELSE boxInDoc
    /\ itemInBox' = IF e = "item" THEN TRUE ELSE itemInBox
    /\ lookupOp' = [method |-> "append", ref |-> e, arg |-> <<>>,
                    result |-> Outcome("none", <<>>, "none")]
    /\ UNCHANGED otherThanLookup

LookupNext ==
    \/ \E ref \in ElementSet, id \in IdArgs : Dollar(ref, id)
    \/ \E ref \in ElementSet, sel \in Selectors : Select(ref, sel)
    \/ \E ref \in ElementSet, sel \in Selectors : Find(ref, sel)
    \/ \E ref \in ElementSet, sel \in Selectors : Closest(ref, sel)
    \/ \E e \in ElementSet : Detach(e)
    \/ \E e \in ElementSet : Attach(e)

\* the lookup's argument names no element: the selector is empty or invalid,
\* or nothing in the lookup's scope has the id or matches the selector
IdOf(arg) ==
    LET a == IF StartsWith(arg, "?") THEN Tail(arg) ELSE arg IN
    IF StartsWith(a, "#") THEN Tail(a) ELSE a

Scope(method, ref) ==
    IF method = "$" THEN Descendants("html", boxInDoc, itemInBox)
    ELSE IF method = "closest"
         THEN {Inclusive(ref, boxInDoc, itemInBox)[i] :
                  i \in DOMAIN Inclusive(ref, boxInDoc, itemInBox)}
    ELSE Descendants(ref, boxInDoc, itemInBox)

NamesNothing(method, ref, arg) ==
    IF method = "$"
    THEN \A e \in Scope(method, ref) : IdOf(arg) = <<>> \/ ElementId(e) # IdOf(arg)
    ELSE \/ ~ValidSyntax(arg)
         \/ \A e \in Scope(method, ref) : ~Matches(e, arg)

MissingValue(method, arg) ==
    IF method = "$" THEN (IF StartsWith(arg, "?") THEN "false" ELSE "null")
    ELSE IF method = "find" THEN "collection"
    ELSE "null"

IsLookup == lookupOp.method \in {"$", "select", "find", "closest"}

\* C11: a lookup for a missing element or with an invalid selector does not
\* throw and returns the null/empty value of its method: $ null (false for
\* '?id'), select null, find an empty collection, closest null.
C11_MissingLookupsReturnEmpty ==
    (IsLookup /\ NamesNothing(lookupOp.method, lookupOp.ref, lookupOp.arg)) =>
        /\ lookupOp.result.kind = MissingValue(lookupOp.method, lookupOp.arg)
        /\ lookupOp.result.els = <<>>

otherThanCollection == <<jexVars, globVars, clsVars, toastVars, loggerVars, lookupVars,
    appVars, consoleVars, toggleVars, tipVars, inspVars>>

\* ------------------------------------------------------------------------
\* JexCollection: the batch methods installed by the constructor
\* ------------------------------------------------------------------------
Wrappers == {"w1", "w2"}
\* the names in the constructor's `methods` array
BatchMethods == {"on", "off", "cls", "attr", "props", "style", "html", "text", "value",
                 "append", "prepend", "clear", "dim", "clearCls", "timeCls", "fadeIn",
                 "fadeOut", "show", "hide"}
\* the names among them that Jex defines: item[method] is a function
JexMethods == BatchMethods \ {"fadeIn", "fadeOut"}
\* argument lists of a batch call
BatchArgs == {<<>>, <<"?x">>, <<"click", "h1">>}
Collections == UNION {[1..n -> Wrappers] : n \in 0..MaxItems}

\* what the wrapper method itself returns: cls('?x') a boolean, the
\* chainable methods the wrapper
WrapperReturn(method, args) ==
    IF method = "cls" /\ args = <<"?x">> THEN "boolean" ELSE "wrapper"

Invocation(item, method, args) ==
    [item |-> item, method |-> method, args |-> args, returned |-> WrapperReturn(method, args)]

\* this.forEach(item => { if (item[method]) item[method](...args); })
RECURSIVE ForEachReversed(_, _, _)
ForEachReversed(items, method, args) ==
    IF items = <<>> THEN <<>>
    ELSE ForEachReversed(Tail(items), method, args)
         \o (IF method \in JexMethods THEN <<Invocation(Head(items), method, args)>> ELSE <<>>)

RECURSIVE ForEach(_, _, _)
ForEach(items, method, args) ==
    IF items = <<>> THEN <<>>
    ELSE (IF method \in JexMethods THEN <<Invocation(Head(items), method, args)>> ELSE <<>>)
         \o ForEach(Tail(items), method, args)

CollInit ==
    /\ collection = <<>>
    /\ invoked = <<>>
    /\ collOp = [method |-> "init", args |-> <<>>, returned |-> "none"]

\* new JexCollection(items)
NewCollection(items) ==
    /\ collection' = items
    /\ invoked' = <<>>
    /\ collOp' = [method |-> "constructor", args |-> <<>>, returned |-> "none"]
    /\ UNCHANGED otherThanCollection

\* collection[method](...args): every item is called, the collection is returned
Batch(method, args) ==
    /\ invoked' = ForEach(collection, method, args)
    /\ collOp' = [method |-> method, args |-> args, returned |-> "this"]
    /\ UNCHANGED <<collection, otherThanCollection>>

CollNext ==
    \/ \E items \in Collections : NewCollection(items)
    \/ \E method \in BatchMethods, args \in BatchArgs : Batch(method, args)

\* the methods the claim lists
ClaimedMethods == {"on", "off", "cls", "attr", "props", "style", "html", "text", "value",
                   "append", "prepend", "clear", "dim", "clearCls", "timeCls", "show", "hide"}

\* C12: a batch method of JexCollection calls the same-named wrapper method
\* with the same arguments exactly once on every item, in collection order,
\* and returns the collection itself, whatever the wrapper method returns.
C12_BatchCallsEveryItemInOrder ==
    collOp.method \in ClaimedMethods =>
        /\ Len(invoked) = Len(collection)
        /\ \A i \in 1..Len(collection) :
              /\ invoked[i].item = collection[i]
              /\ invoked[i].method = collOp.method
              /\ invoked[i].args = collOp.args
        /\ collOp.returned = "this"

\* cls('?x') on a collection of two different items
C12_Witness ==
    /\ collOp.method = "cls"
    /\ collOp.args = <<"?x">>
    /\ collection = <<"w1", "w2">>
    /\ Len(invoked) = 2
    /\ invoked[2].returned = "boolean"
    /\ collOp.returned = "this"

otherThanAppAndToast == <<jexVars, globVars, clsVars, loggerVars, lookupVars, collVars,
    consoleVars, toggleVars, tipVars, inspVars>>

otherThanApp == <<jexVars, globVars, clsVars, toastVars, loggerVars, lookupVars, collVars,
    consoleVars, toggleVars, tipVars, inspVars>>

\* ------------------------------------------------------------------------
\* JexApp: init(), its hooks and its error handler
\* ------------------------------------------------------------------------
AppSources == {"JexApp.js", "JexDebug.js", "part_001"}
AppConfigs == [headerAutoHide : BOOLEAN, keyboard : BOOLEAN]
NoLoad == [logger |-> "none", toast |-> "none"]
Pending == [state |-> "pending", error |-> Null]
FailureMessage == "Application failed to initialize"

\* the statement of init() that follows the toast mount, the header setup
\* and the keyboard setup; onInit() is awaited before `initialized` is set
AfterOnInitLast(pc, config) ==
    IF pc = "mount"
    THEN (IF config.headerAutoHide THEN "header" ELSE IF config.keyboard THEN "keyboard"
          ELSE "dom")
    ELSE IF pc = "header" THEN (IF config.keyboard THEN "keyboard" ELSE "dom")
    ELSE IF pc = "keyboard" THEN "dom"
    ELSE IF pc = "dom" THEN "mark"
    ELSE IF pc = "mark" THEN "onReady"
    ELSE IF pc = "onReady" THEN "onInit"
    ELSE "idle"

After(pc, config) ==
    IF pc = "mount"
    THEN (IF config.headerAutoHide THEN "header" ELSE IF config.keyboard THEN "keyboard"
          ELSE "dom")
    ELSE IF pc = "header" THEN (IF config.keyboard THEN "keyboard" ELSE "dom")
    ELSE IF pc = "keyboard" THEN "dom"
    ELSE IF pc = "dom" THEN "onInit"
    ELSE IF pc = "onInit" THEN "mark"
    ELSE IF pc = "mark" THEN "onReady"
    ELSE "idle"

\* a statement of the try block ends normally or throws
Continue(step, ok) ==
    /\ appSteps' = Append(appSteps, step)
    /\ appPc' = IF ok THEN After(step, appConfig) ELSE "catch"
    /\ appError' = IF ok THEN appError ELSE step
    /\ appOp' = [step |-> step, ok |-> ok]

AppInit ==
    /\ appSource = Null
    /\ appConfig = [headerAutoHide |-> FALSE, keyboard |-> FALSE]
    /\ initialized = FALSE
    /\ appPc = "idle"
    /\ appSteps = <<>>
    /\ appError = Null
    /\ initResult = [state |-> "none", error |-> Null]
    /\ appStart = [initialized |-> FALSE, logger |-> Null, toast |-> Null]
    /\ appLogger = Null
    /\ appToast = Null
    /\ appLoad = NoLoad
    /\ packageReady = FALSE
    /\ eventCleanup = 0
    /\ nInits = 0
    /\ appOp = [step |-> "none", ok |-> TRUE]

\* new JexApp(config): JexApp.js and JexDebug.js take their components from
\* the imported singletons, part_001 loads them in init()
NewApp(source, config) ==
    /\ appSource = Null
    /\ appSource' = source
    /\ appConfig' = config
    /\ appLogger' = IF source = "part_001" THEN Null ELSE "loaded"
    /\ appToast' = IF source = "part_001" THEN Null ELSE "loaded"
    /\ appOp' = [step |-> "constructor", ok |-> TRUE]
    /\ UNCHANGED <<initialized, appPc, appSteps, appError, initResult, appStart, appLoad,
                   packageReady, eventCleanup, nInits, otherThanApp>>

\* init() is called and runs up to its first statement after the log line
CallInit ==
    /\ appSource # Null
    /\ appPc = "idle"
    /\ nInits < MaxInits
    /\ nInits' = nInits + 1
    /\ appSteps' = <<>>
    /\ appError' = Null
    /\ appLoad' = NoLoad
    /\ initResult' = Pending
    /\ appStart' = [initialized |-> initialized, logger |-> appLogger, toast |-> appToast]
    /\ appPc' = IF appSource = "part_001" THEN "load"
                ELSE IF appSource = "JexApp.js" THEN "package" ELSE "mount"
    /\ appOp' = [step |-> "init", ok |-> TRUE]
    /\ UNCHANGED <<appSource, appConfig, initialized, appLogger, appToast, packageReady,
                   eventCleanup, otherThanApp>>

\* try { component = (await import(path)).component } catch { warn }
ImportResultStale(current, ok) == "loaded"

ImportResult(current, ok) == IF ok THEN "loaded" ELSE current

\* part_001 #loadOptionalComponents(): each import() is awaited in its own
\* try/catch; a module that was loaded once loads again
LoadOptionalComponents(loggerOk, toastOk) ==
    /\ appPc = "load"
    /\ appLogger = "loaded" => loggerOk
    /\ appToast = "loaded" => toastOk
    /\ appLogger' = ImportResult(appLogger, loggerOk)
    /\ appToast' = ImportResult(appToast, toastOk)
    /\ appLoad' = [logger |-> IF loggerOk THEN "ok" ELSE "failed",
                   toast |-> IF toastOk THEN "ok" ELSE "failed"]
    /\ appSteps' = Append(appSteps, "load")
    /\ appPc' = "mount"
    /\ appOp' = [step |-> "load", ok |-> TRUE]
    /\ UNCHANGED <<appSource, appConfig, initialized, appError, initResult, appStart,
                   packageReady, eventCleanup, nInits, otherThanApp>>

\* JexApp.js: if (!package.isReady()) await package.init(), which mounts the toast
PackageInit ==
    /\ appPc = "package"
    /\ packageReady' = TRUE
    /\ mounted' = IF packageReady THEN mounted ELSE TRUE
    /\ appSteps' = Append(appSteps, "package")
    /\ appPc' = "mount"
    /\ appOp' = [step |-> "package", ok |-> TRUE]
    /\ UNCHANGED <<appSource, appConfig, initialized, appError, initResult, appStart,
                   appLogger, appToast, appLoad, eventCleanup, nInits>>
    /\ UNCHANGED <<toastOptions, container, activeToasts, toastData, visibleToasts, isVisible,
                   queue, lastToast, autoPending, exitPending, now, nShows, lastShown,
                   toastOp, otherThanAppAndToast>>

\* toast.mount(); part_001 mounts only a toast that was loaded
MountToast ==
    /\ appPc = "mount"
    /\ mounted' = IF appToast = "loaded" THEN TRUE ELSE mounted
    /\ appSteps' = IF appToast = "loaded" THEN Append(appSteps, "mount") ELSE appSteps
    /\ appPc' = After("mount", appConfig)
    /\ appOp' = [step |-> "mount", ok |-> TRUE]
    /\ UNCHANGED <<appSource, appConfig, initialized, appError, initResult, appStart,
                   appLogger, appToast, appLoad, packageReady, eventCleanup, nInits>>
    /\ UNCHANGED <<toastOptions, container, activeToasts, toastData, visibleToasts, isVisible,
                   queue, lastToast, autoPending, exitPending, now, nShows, lastShown,
                   toastOp, otherThanAppAndToast>>

\* #setupHeaderAutoHide(): throws when config.headerSelector is not a string
SetupHeaderAutoHide(ok) ==
    /\ appPc = "header"
    /\ Continue("header", ok)
    /\ UNCHANGED <<appSource, appConfig, initialized, initResult, appStart, appLogger,
                   appToast, appLoad, packageReady, eventCleanup, nInits, otherThanApp>>

\* #setupKeyboardShortcuts(): one more keydown listener on window
SetupKeyboardShortcuts ==
    /\ appPc = "keyboard"
    /\ Continue("keyboard", TRUE)
    /\ eventCleanup' = eventCleanup + 1
    /\ UNCHANGED <<appSource, appConfig, initialized, initResult, appStart, appLogger,
                   appToast, appLoad, packageReady, nInits, otherThanApp>>

\* #setupCommonDOM(): document.querySelector throws for an invalid headerSelector
SetupCommonDOM(ok) ==
    /\ appPc = "dom"
    /\ Continue("dom", ok)
    /\ UNCHANGED <<appSource, appConfig, initialized, initResult, appStart, appLogger,
                   appToast, appLoad, packageReady, eventCleanup, nInits, otherThanApp>>

\* await this.onInit(): the hook's promise is fulfilled or rejected
OnInit(ok) ==
    /\ appPc = "onInit"
    /\ Continue("onInit", ok)
    /\ UNCHANGED <<appSource, appConfig, initialized, initResult, appStart, appLogger,
                   appToast, appLoad, packageReady, eventCleanup, nInits, otherThanApp>>

\* this.initialized = true
MarkInitialized ==
    /\ appPc = "mark"
    /\ Continue("mark", TRUE)
    /\ initialized' = TRUE
    /\ UNCHANGED <<appSource, appConfig, initResult, appStart, appLogger, appToast, appLoad,
                   packageReady, eventCleanup, nInits, otherThanApp>>

\* this.onReady(), then the log line; init() is fulfilled unless the hook throws
OnReady(ok) ==
    /\ appPc = "onReady"
    /\ Continue("onReady", ok)
    /\ initResult' = IF ok THEN [state |-> "fulfilled", error |-> Null] ELSE initResult
    /\ UNCHANGED <<appSource, appConfig, initialized, appStart, appLogger, appToast, appLoad,
                   packageReady, eventCleanup, nInits, otherThanApp>>

\* the catch block shows an error toast (JexApp.js always, part_001 when a
\* toast is loaded, JexDebug.js never)
CatchShowsToast ==
    \/ appSource = "JexApp.js"
    \/ appSource = "part_001" /\ appToast = "loaded"

\* catch (error) { log; toast.error(...); throw error; }
Catch ==
    /\ appPc = "catch"
    /\ initResult' = [state |-> "rejected", error |-> appError]
    /\ appPc' = "idle"
    /\ appOp' = [step |-> "catch", ok |-> TRUE]
    /\ IF CatchShowsToast
       THEN ShowEffect("error", FailureMessage, NullDuration)
       ELSE UNCHANGED toastVars
    /\ UNCHANGED <<appSource, appConfig, initialized, appSteps, appError, appStart, appLogger,
                   appToast, appLoad, packageReady, eventCleanup, nInits, otherThanAppAndToast>>

\* destroy(): the cleanup functions run, initialized is reset
DestroyApp ==
    /\ appSource # Null
    /\ appPc = "idle"
    /\ initialized' = FALSE
    /\ eventCleanup' = 0
    /\ appOp' = [step |-> "destroy", ok |-> TRUE]
    /\ UNCHANGED <<appSource, appConfig, appPc, appSteps, appError, initResult, appStart,
                   appLogger, appToast, appLoad, packageReady, nInits, otherThanApp>>

AppNext ==
    \/ \E source \in AppSources, config \in AppConfigs : NewApp(source, config)
    \/ CallInit
    \/ \E loggerOk \in BOOLEAN, toastOk \in BOOLEAN : LoadOptionalComponents(loggerOk, toastOk)
    \/ PackageInit
    \/ MountToast
    \/ \E ok \in BOOLEAN : SetupHeaderAutoHide(ok)
    \/ SetupKeyboardShortcuts
    \/ \E ok \in BOOLEAN : SetupCommonDOM(ok)
    \/ \E ok \in BOOLEAN : OnInit(ok)
    \/ MarkInitialized
    \/ \E ok \in BOOLEAN : OnReady(ok)
    \/ Catch
    \/ DestroyApp

\* the position of a step in init()
Rank(step) ==
    IF step \in {"load", "package"} THEN 0
    ELSE IF step = "mount" THEN 1
    ELSE IF step = "header" THEN 2
    ELSE IF step = "keyboard" THEN 3
    ELSE IF step = "dom" THEN 4
    ELSE IF step = "onInit" THEN 5
    ELSE IF step = "mark" THEN 6
    ELSE 7

StepSet == {appSteps[i] : i \in DOMAIN appSteps}

\* the steps of a complete init(), from the toast mount on
CompleteSteps ==
    (IF appToast = "loaded" THEN <<"mount">> ELSE <<>>)
    \o (IF appConfig.headerAutoHide THEN <<"header">> ELSE <<>>)
    \o (IF appConfig.keyboard THEN <<"keyboard">> ELSE <<>>)
    \o <<"dom", "onInit", "mark", "onReady">>

FailedBeforeReady == appError \notin {Null, "onReady"}

\* C13: init() runs its steps in the order toast mount, header setup,
\* keyboard setup, common DOM lookup, onInit (awaited), initialized = true,
\* onReady; when a step before onReady throws or onInit rejects, an app that
\* was not initialized stays so, onReady is not called, and init() rejects
\* with that error.
C13_InitOrderAndFailure ==
    /\ \A i, j \in DOMAIN appSteps : i < j => Rank(appSteps[i]) < Rank(appSteps[j])
    /\ "onReady" \in StepSet =>
          SelectSeq(appSteps, LAMBDA st : Rank(st) > 0) = CompleteSteps
    /\ "mark" \in StepSet => "onInit" \in StepSet
    /\ appOp.step \in {"mark", "onReady"} => initialized
    /\ FailedBeforeReady =>
          /\ "mark" \notin StepSet
          /\ "onReady" \notin StepSet
          /\ ~appStart.initialized => ~initialized
          /\ appPc \in {"catch", "idle"}
          /\ appPc = "idle" => initResult = [state |-> "rejected", error |-> appError]

\* onInit() has rejected in JexApp.js with both setups enabled, and init()
\* has rejected with that error
C13_Witness ==
    /\ appSource = "JexApp.js"
    /\ appOp.step = "catch"
    /\ appSteps = <<"package", "mount", "header", "keyboard", "dom", "onInit">>
    /\ initResult = [state |-> "rejected", error |-> "onInit"]
    /\ ~initialized
    /\ toastOp.outcome = "shown"

LoadFailed == appLoad.logger = "failed" \/ appLoad.toast = "failed"

\* C18: in part_001 a failed import of the logger or the toast module does
\* not fail init(): no error comes from the loading step, the steps after
\* it run, and when none of them fails initialized is true, onReady has been
\* called and the component that failed to load is null.
C18_LoadFailureTolerated ==
    (appSource = "part_001" /\ LoadFailed) =>
        /\ appError # "load"
        /\ appLoad.logger = "failed" => appLogger = Null
        /\ appLoad.toast = "failed" => (appToast = Null /\ "mount" \notin StepSet)
        /\ (appPc = "idle" /\ appError = Null /\ appOp.step = "onReady") =>
              /\ initialized
              /\ initResult.state = "fulfilled"
              /\ SelectSeq(appSteps, LAMBDA st : Rank(st) > 0) = CompleteSteps

\* both imports have failed and init() has completed
C18_Witness ==
    /\ appSource = "part_001"
    /\ appLoad = [logger |-> "failed", toast |-> "failed"]
    /\ appOp = [step |-> "onReady", ok |-> TRUE]
    /\ initialized
    /\ initResult.state = "fulfilled"
    /\ appLogger = Null
    /\ appToast = Null
    /\ "onReady" \in StepSet

otherThanConsole == <<jexVars, globVars, clsVars, toastVars, loggerVars, lookupVars, collVars,
    appVars, toggleVars, tipVars, inspVars>>

\* ------------------------------------------------------------------------
\* The console object shared by several JexLogger instances
\* ------------------------------------------------------------------------
Native == 0
LoggerIds == 1..MaxLoggers
ConsoleNames == {"info", "log"}
LoggerSources == {"JexLogger.js", "part_002"}
NoOriginal == -1
NoLogger ==
    [state |-> "none", source |-> Null,
     originals |-> [m \in ConsoleNames |-> NoOriginal], appended |-> 0]

\* the methods #interceptConsole replaces: JexLogger.js the five levels and
\* log, part_002 the five levels only
InterceptedBy(source) == IF source = "JexLogger.js" THEN {"info", "log"} ELSE {"info"}

\* the loggers whose buffers a call of the function `fn` appends to: an
\* interceptor calls the original it stored, then appends to its own buffer
RECURSIVE Appenders(_, _, _)
Appenders(fn, method, ls) ==
    IF fn = Native \/ fn = NoOriginal THEN {}
    ELSE {fn} \cup Appenders(ls[fn].originals[method], method, ls)

AppendTo(ls, ids) ==
    [i \in LoggerIds |-> IF i \in ids THEN [ls[i] EXCEPT !.appended = @ + 1] ELSE ls[i]]

\* destroy(): Object.entries(originals).forEach(([method, orig]) => console[method] = orig)
Restore(fn, originals) ==
    [m \in ConsoleNames |-> IF originals[m] # NoOriginal THEN originals[m] ELSE fn[m]]

ConsoleInit ==
    /\ consoleFn = [m \in ConsoleNames |-> Native]
    /\ loggers = [i \in LoggerIds |-> NoLogger]
    /\ nLoggers = 0
    /\ nConCalls = 0
    /\ conOp = [op |-> "init", id |-> 0]

\* new JexLogger(): the current console methods are stored and replaced,
\* then the welcome message goes through console.info
ConstructLogger(source) ==
    /\ nLoggers < MaxLoggers
    /\ LET id == nLoggers + 1
           fn == [m \in ConsoleNames |-> IF m \in InterceptedBy(source) THEN id
                                         ELSE consoleFn[m]]
           made == [loggers EXCEPT ![id] =
                       [state |-> "live", source |-> source,
                        originals |-> [m \in ConsoleNames |->
                                          IF m \in InterceptedBy(source) THEN consoleFn[m]
                                          ELSE NoOriginal],
                        appended |-> 0]]
       IN /\ consoleFn' = fn
          /\ loggers' = AppendTo(made, Appenders(fn["info"], "info", made))
          /\ nLoggers' = id
          /\ conOp' = [op |-> "construct", id |-> id]
    /\ UNCHANGED <<nConCalls, otherThanConsole>>

\* logger.destroy(): the stored originals are put back, the buffer is emptied
DestroyOne(id) ==
    /\ loggers[id].state \in {"live", "destroyed"}
    /\ consoleFn' = Restore(consoleFn, loggers[id].originals)
    /\ loggers' = [loggers EXCEPT ![id].state = "destroyed", ![id].appended = 0]
    /\ conOp' = [op |-> "destroy", id |-> id]
    /\ UNCHANGED <<nLoggers, nConCalls, otherThanConsole>>

\* the page calls console[method]
CallConsole(method) ==
    /\ nConCalls < MaxConCalls
    /\ nConCalls' = nConCalls + 1
    /\ loggers' = AppendTo(loggers, Appenders(consoleFn[method], method, loggers))
    /\ conOp' = [op |-> "call", id |-> 0]
    /\ UNCHANGED <<consoleFn, nLoggers, otherThanConsole>>

ConsoleNext ==
    \/ \E source \in LoggerSources : ConstructLogger(source)
    \/ \E id \in LoggerIds : DestroyOne(id)
    \/ \E method \in ConsoleNames : CallConsole(method)

AllDestroyed ==
    /\ nLoggers > 0
    /\ \A i \in LoggerIds : loggers[i].state \in {"none", "destroyed"}

\* C14: once every constructed logger has been destroyed, every console
\* method is the function it was before the first logger was constructed and
\* no destroyed logger's buffer holds a message appended since.
C14_ConsoleRestored ==
    AllDestroyed =>
        /\ \A m \in ConsoleNames : consoleFn[m] = Native
        /\ \A i \in LoggerIds : loggers[i].appended = 0

otherThanToggle == <<jexVars, globVars, clsVars, toastVars, loggerVars, lookupVars, collVars,
    appVars, consoleVars, tipVars, inspVars>>

\* ------------------------------------------------------------------------
\* JexLogger.toggleConsole and the inspector that listens to its events
\* ------------------------------------------------------------------------
NoEvent == "none"

\* the event toggleConsole() dispatches on window once visibility is `visible`:
\* part_002 dispatches jex:console:show / jex:console:hide, JexLogger.js nothing
Dispatched(source, visible) ==
    IF source = "part_002"
    THEN (IF visible THEN "jex:console:show" ELSE "jex:console:hide")
    ELSE NoEvent

\* the inspector's window listeners: show -> enable(), hide -> disable()
InspectorAfter(event, enabled) ==
    IF event = "jex:console:show" THEN TRUE
    ELSE IF event = "jex:console:hide" THEN FALSE
    ELSE enabled

\* the F2 listeners: JexLogger.#setupKeyboardShortcuts (document, JexLogger.js
\* only), JexInspector.#setupKeyboard (document), JexApp.#setupKeyboardShortcuts
\* (window)
KeyOwners == {"logger", "inspector", "app"}
NoKey == [pressed |-> FALSE, handlers |-> {}, visible |-> FALSE, animating |-> FALSE]

ToggleInit ==
    /\ toggleSource = Null
    /\ consoleVisible = FALSE
    /\ isAnimating = FALSE
    /\ fallbackTimers = 0
    /\ isEnabled = FALSE
    /\ mouseListeners = FALSE
    /\ nToggles = 0
    /\ keyHandlers = {}
    /\ keyOp = NoKey
    /\ toggleOp = [accepted |-> FALSE, event |-> NoEvent]

\* the page loads one of the logger sources, and the inspector
LoadLogger(source) ==
    /\ toggleSource = Null
    /\ toggleSource' = source
    /\ UNCHANGED <<consoleVisible, isAnimating, fallbackTimers, isEnabled, mouseListeners,
                   nToggles, keyHandlers, keyOp, toggleOp, otherThanToggle>>

\* part_002 starts a timer of animationDuration + 50 ms that resets isAnimating;
\* JexLogger.js starts none
ScheduleFallback(source, timers) ==
    IF source = "part_002" THEN timers + 1 ELSE timers

\* toggleConsole(): ignored while animating; the event listeners of the
\* inspector run inside dispatchEvent
ToggleConsole ==
    /\ toggleSource # Null
    /\ nToggles < MaxToggles
    /\ nToggles' = nToggles + 1
    /\ IF isAnimating
       THEN /\ toggleOp' = [accepted |-> FALSE, event |-> NoEvent]
            /\ UNCHANGED <<consoleVisible, isAnimating, fallbackTimers, isEnabled,
                           mouseListeners>>
       ELSE LET visible == ~consoleVisible
                event == Dispatched(toggleSource, visible) IN
            /\ isAnimating' = TRUE
            /\ fallbackTimers' = ScheduleFallback(toggleSource, fallbackTimers)
            /\ consoleVisible' = visible
            /\ isEnabled' = InspectorAfter(event, isEnabled)
            /\ mouseListeners' = InspectorAfter(event, mouseListeners)
            /\ toggleOp' = [accepted |-> TRUE, event |-> event]
    /\ UNCHANGED <<toggleSource, keyHandlers, keyOp, otherThanToggle>>

\* the state toggleConsole() reads and writes
ToggleState ==
    [visible |-> consoleVisible, animating |-> isAnimating, timers |-> fallbackTimers,
     enabled |-> isEnabled, listeners |-> mouseListeners]

\* one toggleConsole() call, as a function of the state
ToggledUnguarded(st) ==
    LET visible == ~st.visible
        event == Dispatched(toggleSource, visible) IN
    [visible |-> visible, animating |-> TRUE,
     timers |-> ScheduleFallback(toggleSource, st.timers),
     enabled |-> InspectorAfter(event, st.enabled),
     listeners |-> InspectorAfter(event, st.listeners)]

Toggled(st) ==
    IF st.animating THEN st
    ELSE LET visible == ~st.visible
             event == Dispatched(toggleSource, visible) IN
         [visible |-> visible, animating |-> TRUE,
          timers |-> ScheduleFallback(toggleSource, st.timers),
          enabled |-> InspectorAfter(event, st.enabled),
          listeners |-> InspectorAfter(event, st.listeners)]

\* the listeners of one keydown event run one after the other
RECURSIVE ToggledTimes(_, _)
ToggledTimes(st, n) == IF n = 0 THEN st ELSE ToggledTimes(Toggled(st), n - 1)

\* a component registers its F2 listener
AddKeyHandler(owner) ==
    /\ toggleSource # Null
    /\ owner \notin keyHandlers
    /\ owner = "logger" => toggleSource = "JexLogger.js"
    /\ keyHandlers' = keyHandlers \cup {owner}
    /\ UNCHANGED <<toggleSource, consoleVisible, isAnimating, fallbackTimers, isEnabled,
                   mouseListeners, nToggles, keyOp, toggleOp, otherThanToggle>>

\* the user presses F2 once: every registered listener calls toggleConsole()
KeydownF2 ==
    /\ toggleSource # Null
    /\ nToggles < MaxToggles
    /\ nToggles' = nToggles + 1
    /\ LET st == ToggledTimes(ToggleState, Cardinality(keyHandlers)) IN
       /\ consoleVisible' = st.visible
       /\ isAnimating' = st.animating
       /\ fallbackTimers' = st.timers
       /\ isEnabled' = st.enabled
       /\ mouseListeners' = st.listeners
    /\ keyOp' = [pressed |-> TRUE, handlers |-> keyHandlers, visible |-> consoleVisible,
                 animating |-> isAnimating]
    /\ UNCHANGED <<toggleSource, keyHandlers, toggleOp, otherThanToggle>>

\* the browser delivers transitionend to #dom.root: the listener resets
\* isAnimating
AnimationEnd ==
    /\ isAnimating
    /\ isAnimating' = FALSE
    /\ UNCHANGED <<toggleSource, consoleVisible, fallbackTimers, isEnabled, mouseListeners,
                   nToggles, keyHandlers, keyOp, toggleOp, otherThanToggle>>

\* part_002: a timer started by toggleConsole() fires and resets isAnimating
FallbackTimer ==
    /\ fallbackTimers > 0
    /\ fallbackTimers' = fallbackTimers - 1
    /\ isAnimating' = FALSE
    /\ UNCHANGED <<toggleSource, consoleVisible, isEnabled, mouseListeners, nToggles,
                   keyHandlers, keyOp, toggleOp, otherThanToggle>>

ToggleNext ==
    \/ \E source \in {"JexLogger.js", "part_002"} : LoadLogger(source)
    \/ ToggleConsole
    \/ AnimationEnd
    \/ FallbackTimer
    \/ \E owner \in KeyOwners : AddKeyHandler(owner)
    \/ KeydownF2

\* C15: an accepted toggleConsole() dispatches jex:console:show when it
\* makes the console visible and jex:console:hide when it hides it, so the
\* inspector's isEnabled always equals the console's visibility.
C15_InspectorFollowsConsole ==
    /\ toggleOp.accepted =>
          toggleOp.event = (IF consoleVisible THEN "jex:console:show" ELSE "jex:console:hide")
    /\ isEnabled = consoleVisible

\* a toggleConsole() call made while isAnimating is set changes nothing
RejectedChangesNothing ==
    [][(ToggleConsole /\ isAnimating) =>
          UNCHANGED <<consoleVisible, isAnimating, fallbackTimers, isEnabled, mouseListeners>>]_vars

\* C23: toggleConsole() during an animation changes nothing, and after every
\* accepted toggle isAnimating is eventually cleared, so that a later
\* toggleConsole() is eventually accepted.
C23_AnimatingEventuallyCleared ==
    /\ RejectedChangesNothing
    /\ isAnimating ~> ~isAnimating

\* C24: a single F2 keydown toggles the console visibility exactly once,
\* although every registered handler calls toggleConsole() for that event.
C24_KeydownTogglesOnce ==
    [][(KeydownF2 /\ keyHandlers # {}) => consoleVisible' = ~consoleVisible]_vars

\* C24 (amended): a single F2 keydown toggles the visibility exactly once when
\* no animation is flagged, and not at all while isAnimating is set.
C24_KeydownTogglesOnceUnlessAnimating ==
    [][(KeydownF2 /\ keyHandlers # {}) =>
          consoleVisible' = (IF isAnimating THEN consoleVisible ELSE ~consoleVisible)]_vars

\* an F2 keydown ran three handlers and toggled the console
C24_Witness ==
    /\ keyOp.pressed
    /\ Cardinality(keyOp.handlers) = 3
    /\ ~keyOp.animating
    /\ consoleVisible # keyOp.visible
    /\ isAnimating

otherThanTip == <<jexVars, globVars, clsVars, toastVars, loggerVars, lookupVars, collVars,
    appVars, consoleVars, toggleVars, inspVars>>

\* ------------------------------------------------------------------------
\* JexInspector.#positionTooltip
\* ------------------------------------------------------------------------
\* the offset from the pointer and the margin kept from the far edges, in px
PointerOffset == 15
EdgeMargin == 10
\* lengths used for positions and sizes
Pixels == {n * PixelStep : n \in 0..(MaxViewport \div PixelStep)}
ViewportSizes == {MaxViewport - PixelStep, MaxViewport}

\* let left = mouse + 15; if (left + size > inner - 10) left = mouse - size - 15
Place(mouse, size, inner) ==
    IF mouse + PointerOffset + size > inner - EdgeMargin
    THEN mouse - size - PointerOffset
    ELSE mouse + PointerOffset

TipInit ==
    /\ viewport = [innerWidth |-> MaxViewport, innerHeight |-> MaxViewport]
    /\ tooltip = [placed |-> FALSE, mouseX |-> 0, mouseY |-> 0, width |-> 0, height |-> 0,
                  left |-> 0, top |-> 0]

\* the window is resized
Resize(w, h) ==
    /\ viewport' = [innerWidth |-> w, innerHeight |-> h]
    /\ UNCHANGED <<tooltip, otherThanTip>>

\* #positionTooltip(mouseX, mouseY) for a tooltip whose bounding rectangle
\* is width x height
PositionTooltip(mouseX, mouseY, width, height) ==
    /\ mouseX <= viewport.innerWidth
    /\ mouseY <= viewport.innerHeight
    /\ tooltip' = [placed |-> TRUE, mouseX |-> mouseX, mouseY |-> mouseY,
                   width |-> width, height |-> height,
                   left |-> Place(mouseX, width, viewport.innerWidth),
                   top |-> Place(mouseY, height, viewport.innerHeight)]
    /\ UNCHANGED <<viewport, otherThanTip>>

TipNext ==
    \/ \E w \in ViewportSizes, h \in ViewportSizes : Resize(w, h)
    \/ \E x \in Pixels, y \in Pixels, w \in Pixels, h \in Pixels : PositionTooltip(x, y, w, h)

\* the tooltip was placed for the current viewport, the pointer is inside the
\* viewport and the tooltip is not larger than the viewport
PlacedInViewport ==
    /\ tooltip.placed
    /\ tooltip.mouseX <= viewport.innerWidth
    /\ tooltip.mouseY <= viewport.innerHeight
    /\ tooltip.width <= viewport.innerWidth
    /\ tooltip.height <= viewport.innerHeight

\* C16: for a pointer inside the viewport and a tooltip that fits in it, the
\* tooltip's rectangle lies entirely within the viewport.
C16_TooltipInsideViewport ==
    PlacedInViewport =>
        /\ 0 <= tooltip.left
        /\ tooltip.left + tooltip.width <= viewport.innerWidth
        /\ 0 <= tooltip.top
        /\ tooltip.top + tooltip.height <= viewport.innerHeight

otherThanInspector == <<jexVars, globVars, clsVars, toastVars, loggerVars, lookupVars,
    collVars, appVars, consoleVars, toggleVars, tipVars>>

\* ------------------------------------------------------------------------
\* JexInspector / JexDebug: the listeners of the element inspector
\* ------------------------------------------------------------------------
InspectorSources == {"part_000", "JexDebug.js"}
\* a cleanup field that holds no function (null or undefined)
NoCleanup == 0

\* listeners are named by the call that registered them; a cleanup function
\* removes the listeners of its call
NoInspector ==
    [isEnabled |-> FALSE, docMouse |-> {}, winScroll |-> {}, docKeydown |-> {},
     consoleEvents |-> FALSE, cleanupDocument |-> NoCleanup, cleanupWindow |-> NoCleanup,
     cleanupKeyboard |-> NoCleanup, destroyed |-> FALSE]

\* enable()
EnableOnUnguarded(st, id) ==
    [st EXCEPT !.isEnabled = TRUE,
               !.docMouse = @ \cup {id}, !.cleanupDocument = id,
               !.winScroll = @ \cup {id}, !.cleanupWindow = id]

EnableOn(st, id) ==
    IF st.isEnabled THEN st
    ELSE [st EXCEPT !.isEnabled = TRUE,
                    !.docMouse = @ \cup {id}, !.cleanupDocument = id,
                    !.winScroll = @ \cup {id}, !.cleanupWindow = id]

\* disable(): JexInspector sets the cleanup fields to null, JexDebug keeps them
DisableOn(source, st) ==
    IF ~st.isEnabled THEN st
    ELSE [st EXCEPT !.isEnabled = FALSE,
                    !.docMouse = @ \ {st.cleanupDocument},
                    !.winScroll = @ \ {st.cleanupWindow},
                    !.cleanupDocument = IF source = "part_000" THEN NoCleanup ELSE @,
                    !.cleanupWindow = IF source = "part_000" THEN NoCleanup ELSE @]

\* toggle()
ToggleOn(source, st, id) ==
    IF st.isEnabled THEN DisableOn(source, st) ELSE EnableOn(st, id)

\* #setupKeyboard() / setupKeyboardShortcuts(): a new keydown listener, whose
\* cleanup replaces the stored one
SetupKeyboard(st, id) ==
    [st EXCEPT !.docKeydown = @ \cup {id}, !.cleanupKeyboard = id]

CleanupKeyboard(st) ==
    [st EXCEPT !.docKeydown = @ \ {st.cleanupKeyboard}, !.cleanupKeyboard = NoCleanup]

\* setEnabled(enabled)
SetEnabledOn(source, st, enabled, id) ==
    IF source = "part_000"
    THEN (IF enabled THEN SetupKeyboard(st, id) ELSE CleanupKeyboard(st))
    ELSE IF enabled /\ st.cleanupKeyboard = NoCleanup THEN SetupKeyboard(st, id)
    ELSE IF ~enabled /\ st.cleanupKeyboard # NoCleanup THEN CleanupKeyboard(st)
    ELSE st

\* destroy()
DestroyOn(source, st) ==
    [CleanupKeyboard(DisableOn(source, st)) EXCEPT
        !.consoleEvents = FALSE, !.cleanupDocument = NoCleanup,
        !.cleanupWindow = NoCleanup, !.destroyed = TRUE]

InspInit ==
    /\ inspSource = Null
    /\ inspector = NoInspector
    /\ nRegs = 0
    /\ inspOp = [op |-> "init", before |-> NoInspector]

\* new JexInspector(options) / new JexDebug(options)
NewInspector(source, enabled) ==
    /\ inspSource = Null
    /\ inspSource' = source
    /\ nRegs' = nRegs + 1
    /\ inspector' = LET st == [NoInspector EXCEPT !.consoleEvents = TRUE] IN
                    IF enabled THEN SetupKeyboard(st, nRegs + 1) ELSE st
    /\ inspOp' = [op |-> "new", before |-> inspector]
    /\ UNCHANGED otherThanInspector

\* the inspector exists and may register more listeners
Usable == inspSource # Null /\ ~inspector.destroyed /\ nRegs < MaxRegs

Enable ==
    /\ Usable
    /\ nRegs' = nRegs + 1
    /\ inspector' = EnableOn(inspector, nRegs + 1)
    /\ inspOp' = [op |-> "enable", before |-> inspector]
    /\ UNCHANGED <<inspSource, otherThanInspector>>

Disable ==
    /\ Usable
    /\ inspector' = DisableOn(inspSource, inspector)
    /\ inspOp' = [op |-> "disable", before |-> inspector]
    /\ UNCHANGED <<inspSource, nRegs, otherThanInspector>>

ToggleInspector ==
    /\ Usable
    /\ nRegs' = nRegs + 1
    /\ inspector' = ToggleOn(inspSource, inspector, nRegs + 1)
    /\ inspOp' = [op |-> "toggle", before |-> inspector]
    /\ UNCHANGED <<inspSource, otherThanInspector>>

\* window receives jex:console:show
ConsoleShow ==
    /\ Usable
    /\ inspector.consoleEvents
    /\ nRegs' = nRegs + 1
    /\ inspector' = EnableOn(inspector, nRegs + 1)
    /\ inspOp' = [op |-> "show", before |-> inspector]
    /\ UNCHANGED <<inspSource, otherThanInspector>>

\* window receives jex:console:hide
ConsoleHide ==
    /\ Usable
    /\ inspector.consoleEvents
    /\ inspector' = DisableOn(inspSource, inspector)
    /\ inspOp' = [op |-> "hide", before |-> inspector]
    /\ UNCHANGED <<inspSource, nRegs, otherThanInspector>>

SetEnabled(enabled) ==
    /\ Usable
    /\ nRegs' = nRegs + 1
    /\ inspector' = SetEnabledOn(inspSource, inspector, enabled, nRegs + 1)
    /\ inspOp' = [op |-> IF enabled THEN "setEnabled(true)" ELSE "setEnabled(false)",
                  before |-> inspector]
    /\ UNCHANGED <<inspSource, otherThanInspector>>

\* JexDebug.setupKeyboardShortcuts() is public
DebugSetupKeyboardShortcuts ==
    /\ Usable
    /\ inspSource = "JexDebug.js"
    /\ nRegs' = nRegs + 1
    /\ inspector' = SetupKeyboard(inspector, nRegs + 1)
    /\ inspOp' = [op |-> "setupKeyboardShortcuts", before |-> inspector]
    /\ UNCHANGED <<inspSource, otherThanInspector>>

DestroyInspector ==
    /\ inspSource # Null
    /\ ~inspector.destroyed
    /\ inspector' = DestroyOn(inspSource, inspector)
    /\ inspOp' = [op |-> "destroy", before |-> inspector]
    /\ UNCHANGED <<inspSource, nRegs, otherThanInspector>>

InspNext ==
    \/ \E source \in InspectorSources, enabled \in BOOLEAN : NewInspector(source, enabled)
    \/ Enable
    \/ Disable
    \/ ToggleInspector
    \/ ConsoleShow
    \/ ConsoleHide
    \/ \E enabled \in BOOLEAN : SetEnabled(enabled)
    \/ DebugSetupKeyboardShortcuts
    \/ DestroyInspector

\* C25: the document mouse listeners and the window scroll listener are
\* registered exactly once when isEnabled is true and not at all when it is
\* false; enable() on an enabled inspector and disable() on a disabled one
\* change nothing.
C25_ListenersFollowEnabled ==
    /\ inspector.isEnabled =>
          Cardinality(inspector.docMouse) = 1 /\ Cardinality(inspector.winScroll) = 1
    /\ ~inspector.isEnabled => inspector.docMouse = {} /\ inspector.winScroll = {}
    /\ (inspOp.op \in {"enable", "show"} /\ inspOp.before.isEnabled) =>
          inspector = inspOp.before
    /\ (inspOp.op \in {"disable", "hide"} /\ ~inspOp.before.isEnabled) =>
          inspector = inspOp.before

\* enable() was called on an inspector that had been enabled and disabled
\* before, and on one that was enabled already
C25_Witness ==
    /\ inspOp.op = "enable"
    /\ inspOp.before.isEnabled
    /\ inspector.isEnabled
    /\ inspector.cleanupDocument > 1

\* C26: the inspector has at most one keydown toggle listener on the
\* document, and none after setEnabled(false) or destroy().
C26_OneKeydownListener ==
    /\ Cardinality(inspector.docKeydown) <= 1
    /\ inspOp.op \in {"setEnabled(false)", "destroy"} => inspector.docKeydown = {}

Init == JexInit /\ GlobInit /\ ClsInit /\ ToastInit /\ LoggerInit /\ LookupInit
    /\ CollInit /\ AppInit /\ ConsoleInit /\ ToggleInit /\ TipInit /\ InspInit

\* the toast notifier's options while another part of the library is exercised
ToastIdle ==
    toastOptions = [maxVisible |-> 1, queueMessages |-> TRUE, detectDuplicates |-> TRUE,
                    duration |-> DefaultDuration]

IdleInit == Init /\ ToastIdle

SpecJex == IdleInit /\ [][JexNext]_vars

SpecGlobal == IdleInit /\ [][GlobNext]_vars

SpecCls == IdleInit /\ [][ClsNext]_vars

SpecToast == Init /\ [][ToastNext]_vars

SpecLogger == IdleInit /\ [][LoggerNext]_vars

\* The toast notifier without clearAll()/destroy(); the browser runs every
\* pending timer callback eventually.
LiveKinds == {<<"info", "m1">>}

ToastLiveInit == Init /\ toastOptions.queueMessages

ToastLiveNext ==
    \/ \E k \in LiveKinds, d \in DurationArgs : Show(k[1], k[2], d)
    \/ \E id \in ToastIds : ClickClose(id)
    \/ \E id \in ToastIds : AutoTimerFires(id)
    \/ \E id \in ToastIds : ExitDone(id)
    \/ Tick

ToastFairness ==
    \A id \in ToastIds : WF_vars(AutoTimerFires(id)) /\ WF_vars(ExitDone(id))

SpecToastLive == ToastLiveInit /\ [][ToastLiveNext]_vars /\ ToastFairness

SpecLookup == IdleInit /\ [][LookupNext]_vars

SpecCollection == IdleInit /\ [][CollNext]_vars

SpecApp == IdleInit /\ [][AppNext]_vars

SpecConsole == IdleInit /\ [][ConsoleNext]_vars

SpecToggle == IdleInit /\ [][ToggleNext]_vars

\* timers always fire; whether the browser delivers transitionend is not up
\* to the program
ToggleFairness == WF_vars(FallbackTimer)

SpecToggleLive == IdleInit /\ [][ToggleNext]_vars /\ ToggleFairness

SpecTooltip == IdleInit /\ [][TipNext]_vars

SpecInspector == IdleInit /\ [][InspNext]_vars

====
